---- MODULE Spec2Model ----
(***************************************************************************)
(* Status-document mutation engine and workspace path validator of         *)
(* clique-claw (src/core/workflowParser.ts, src/core/sprintParser.ts,      *)
(* src/core/pathValidation.ts).                                            *)
(*                                                                         *)
(* Text is a sequence of one-character strings, so that the regular        *)
(* expressions of the update functions are evaluated character by          *)
(* character, as the JavaScript engine evaluates them.                     *)
(***************************************************************************)
EXTENDS Integers, Sequences, FiniteSets, TLC

VARIABLES files, workspaceRoot, sprintWorkspaceRoot, lastWorkflowParseError,
          lastSprintParseError, last, calls,
          \* extension.ts: the last message shown per view, the notifications
          lastWorkflowErrorMessage, lastSprintErrorMessage, shown,
          \* wasmLoader.ts: the cache, the loads started, the callers in flight
          wasmModuleCache, wasmLoadPromise, wasmLoadError, loads, callers,
          \* CliqueFileWatcher: its maps, the pending timeouts, the clock, the
          \* callbacks made, the change events received
          vsCodeWatcher, nativeWatchers, debounceTimers, timers, now, notified,
          events, disposed

\* the state of the parse/update engine
engineVars == <<files, workspaceRoot, sprintWorkspaceRoot, lastWorkflowParseError,
                lastSprintParseError, last, calls>>

extensionVars == <<lastWorkflowErrorMessage, lastSprintErrorMessage, shown>>

wasmVars == <<wasmModuleCache, wasmLoadPromise, wasmLoadError, loads, callers>>

watcherVars == <<vsCodeWatcher, nativeWatchers, debounceTimers, timers, now, notified,
                 events, disposed>>

vars == <<engineVars, extensionVars, wasmVars, watcherVars>>

(***************************************************************************)
(* Bounds                                                                  *)
(***************************************************************************)
MaxItems == 2
MaxCalls == 1
MaxDepth == 3

MaxParses == 2

MaxEntries == 2

MaxKeys == 4

MaxReloads == 3

MaxCallers == 2

MaxTasks == 3
\* the file-system events one run of the watcher receives
MaxEvents == 2
\* the time one run of the watcher lasts, in units of 100 ms
MaxTime == 10

(***************************************************************************)
(* Characters and character classes of the regular expressions             *)
(***************************************************************************)
NL == "\n"
DQ == "\""
SQ == "'"

\* \s of a JavaScript RegExp, over the characters that occur in the documents
IsWs(c) == c \in {" ", "\t", NL}

\* [ \t]
IsBlank(c) == c \in {" ", "\t"}

\* ["']
IsQuote(c) == c \in {DQ, SQ}

\* [^\n"']
IsFlatValueChar(c) == c \notin {NL, DQ, SQ}

\* [^\s"']
IsOldValueChar(c) == ~IsWs(c) /\ ~IsQuote(c)

\* a literal (an escaped identifier, or fixed pattern text) matches at position i
StartsAt(s, i, lit) ==
    /\ i >= 1
    /\ i + Len(lit) - 1 <= Len(s)
    /\ \A n \in 1..Len(lit) : s[i + n - 1] = lit[n]

\* ^ under the m flag
AtLineStart(s, i) == i = 1 \/ (i >= 2 /\ i <= Len(s) + 1 /\ s[i - 1] = NL)

RECURSIVE SkipWs(_, _)
\* greedy \s* from position i: the first position that is not whitespace
SkipWs(s, i) == IF i <= Len(s) /\ IsWs(s[i]) THEN SkipWs(s, i + 1) ELSE i

RECURSIVE SkipBlank(_, _)
\* greedy [ \t]* from position i
SkipBlank(s, i) == IF i <= Len(s) /\ IsBlank(s[i]) THEN SkipBlank(s, i + 1) ELSE i

RECURSIVE SkipNonWs(_, _)
\* greedy \S+ from position i (the caller checks that one character matches)
SkipNonWs(s, i) == IF i <= Len(s) /\ ~IsWs(s[i]) THEN SkipNonWs(s, i + 1) ELSE i

RECURSIVE SkipFlatValue(_, _)
\* greedy [^\n"']+ from position i
SkipFlatValue(s, i) ==
    IF i <= Len(s) /\ IsFlatValueChar(s[i]) THEN SkipFlatValue(s, i + 1) ELSE i

RECURSIVE SkipOldValue(_, _)
\* greedy [^\s"']+ from position i
SkipOldValue(s, i) ==
    IF i <= Len(s) /\ IsOldValueChar(s[i]) THEN SkipOldValue(s, i + 1) ELSE i

RECURSIVE LineEnd(_, _)
\* the position of the newline that ends the line holding position i
LineEnd(s, i) == IF i <= Len(s) /\ s[i] # NL THEN LineEnd(s, i + 1) ELSE i

\* ["']? after a value: one more character when a quote follows
OptQuote(s, i) == IF i <= Len(s) /\ IsQuote(s[i]) THEN i + 1 ELSE i

NoMatch == [ok |-> FALSE, g |-> 0, e |-> 0]

\* the leftmost position at which a pattern matches (String.replace and
\* RegExp.test without the g flag use the first match only)
FirstMatch(s, M(_)) ==
    LET hits == {i \in 1..(Len(s) + 1) : M(i).ok}
    IN  IF hits = {} THEN NoMatch
        ELSE M(CHOOSE i \in hits : \A j \in hits : i <= j)

\* content.replace(regex, `$1${replacement}`): group 1 ends before position
\* m.g, the match ends before position m.e
ReplaceMatch(s, m, replacement) ==
    SubSeq(s, 1, m.g - 1) \o replacement \o SubSeq(s, m.e, Len(s))

(***************************************************************************)
(* The four update patterns                                                *)
(***************************************************************************)

\* (^[ \t]*ID:\s*\n[ \t]*status:\s*)\S+   with flag m, tried at position i
NewFormatMatchAt(s, itemId, i) ==
    LET j == SkipBlank(s, i)
        k == j + Len(itemId) + 1
        r == SkipWs(s, k)
        q == SkipWs(s, r + 7)
    IN  IF /\ AtLineStart(s, i)
           /\ StartsAt(s, j, itemId \o <<":">>)
           /\ \E p \in k..(r - 1) : s[p] = NL
           /\ StartsAt(s, r, <<"s","t","a","t","u","s",":">>)
           /\ q <= Len(s)
        THEN [ok |-> TRUE, g |-> q, e |-> SkipNonWs(s, q)]
        ELSE NoMatch

\* ["']?[^\n"']+["']? tried at position t
FlatValueAt(s, t) ==
    IF t <= Len(s) /\ IsQuote(s[t]) /\ t + 1 <= Len(s) /\ IsFlatValueChar(s[t + 1])
    THEN [ok |-> TRUE, e |-> OptQuote(s, SkipFlatValue(s, t + 1))]
    ELSE IF t <= Len(s) /\ IsFlatValueChar(s[t])
         THEN [ok |-> TRUE, e |-> OptQuote(s, SkipFlatValue(s, t))]
         ELSE [ok |-> FALSE, e |-> 0]

\* (^[ \t]*ID:\s*)["']?[^\n"']+["']?   with flag m, tried at position i.
\* \s* is greedy and gives characters back until the value part matches.
FlatFormatMatchAt(s, itemId, i) ==
    LET j == SkipBlank(s, i)
        k == j + Len(itemId) + 1
        r == SkipWs(s, k)
        ts == {t \in k..r : FlatValueAt(s, t).ok}
    IN  IF /\ AtLineStart(s, i)
           /\ StartsAt(s, j, itemId \o <<":">>)
           /\ ts # {}
        THEN LET t == CHOOSE t \in ts : \A u \in ts : u <= t
             IN  [ok |-> TRUE, g |-> t, e |-> FlatValueAt(s, t).e]
        ELSE NoMatch

\* status:\s*["']?[^\s"']+["']? tried at position p
OldStatusAt(s, p) ==
    LET q == SkipWs(s, p + 7)
        v == IF q <= Len(s) /\ IsQuote(s[q]) /\ q + 1 <= Len(s) /\ IsOldValueChar(s[q + 1])
             THEN q + 1 ELSE q
    IN  IF /\ StartsAt(s, p, <<"s","t","a","t","u","s",":">>)
           /\ v <= Len(s)
           /\ IsOldValueChar(s[v])
        THEN [ok |-> TRUE, g |-> q, e |-> OptQuote(s, SkipOldValue(s, v))]
        ELSE NoMatch

\* (- id: ["']?ID["']?[\s\S]*?status:\s*)["']?[^\s"']+["']?  tried at i.
\* [\s\S]*? is lazy: it stops at the first position from which the rest matches.
OldFormatMatchAt(s, itemId, i) ==
    LET a == i + 6
        b == OptQuote(s, a) + Len(itemId)
        ps == {p \in b..Len(s) : OldStatusAt(s, p).ok}
    IN  IF /\ StartsAt(s, i, <<"-"," ","i","d",":"," ">>)
           /\ StartsAt(s, OptQuote(s, a), itemId)
           /\ ps # {}
        THEN OldStatusAt(s, CHOOSE p \in ps : \A u \in ps : p <= u)
        ELSE NoMatch

\* the story pattern with the value taken up to the end of the line
StoryMatchAt_ToLineEnd(s, storyId, i) ==
    LET j == SkipWs(s, i)
        q == SkipWs(s, j + Len(storyId) + 1)
    IN  IF /\ AtLineStart(s, i)
           /\ StartsAt(s, j, storyId \o <<":">>)
           /\ q <= Len(s)
        THEN [ok |-> TRUE, g |-> q, e |-> LineEnd(s, q)]
        ELSE NoMatch

\* ^(\s*ID:\s*)\S+   with flag m, tried at position i
StoryMatchAt(s, storyId, i) ==
    LET j == SkipWs(s, i)
        q == SkipWs(s, j + Len(storyId) + 1)
    IN  IF /\ AtLineStart(s, i)
           /\ StartsAt(s, j, storyId \o <<":">>)
           /\ q <= Len(s)
        THEN [ok |-> TRUE, g |-> q, e |-> SkipNonWs(s, q)]
        ELSE NoMatch

(***************************************************************************)
(* Words of the documents: keys, status tokens, identifiers                *)
(***************************************************************************)
K_workflows == <<"w","o","r","k","f","l","o","w","s">>

K_workflow_status == <<"w","o","r","k","f","l","o","w","_","s","t","a","t","u","s">>

K_development_status == <<"d","e","v","e","l","o","p","m","e","n","t","_","s","t","a","t","u","s">>

K_status == <<"s","t","a","t","u","s">>

K_output_file == <<"o","u","t","p","u","t","_","f","i","l","e">>

K_phase == <<"p","h","a","s","e">>

K_project == <<"p","r","o","j","e","c","t">>

S_required == <<"r","e","q","u","i","r","e","d">>

S_skipped == <<"s","k","i","p","p","e","d">>

S_complete == <<"c","o","m","p","l","e","t","e">>

S_not_started == <<"n","o","t","_","s","t","a","r","t","e","d">>

S_draft == <<"d","r","a","f","t">>

S_backlog == <<"b","a","c","k","l","o","g">>

S_done == <<"d","o","n","e">>

S_path == <<"d","/","p",".","m","d">>

I_prd == <<"p","r","d">>

I_prd_v == <<"p","r","d","-","v">>

I_ux == <<"u","x">>

I_epic_1 == <<"e","p","i","c","-","1">>

I_1_1_login == <<"1","-","1","-","l","o","g","i","n">>

I_1_2_signup == <<"1","-","2","-","s","i","g","n","u","p">>

I_9_9_none == <<"9","-","9","-","n","o","n","e">>


(***************************************************************************)
(* Lines of a text                                                         *)
(***************************************************************************)
\* positions at which a line of s begins
LineStarts(s) == {i \in 1..Len(s) : AtLineStart(s, i)}

LineAt(s, i) == SubSeq(s, i, LineEnd(s, i) - 1)

\* the start of the line that holds position p
LineOf(s, p) == CHOOSE i \in LineStarts(s) : i <= p /\ p <= LineEnd(s, i)

Indent(s, i) == SkipBlank(s, i) - i

IsBlankLine(s, i) ==
    LET j == SkipBlank(s, i) IN j > Len(s) \/ s[j] = NL \/ s[j] = "#"

\* the lines of s, in order
Lines(s) ==
    LET starts == LineStarts(s)
        nth[n \in 1..Cardinality(starts)] ==
            IF n = 1 THEN 1 ELSE LineEnd(s, nth[n - 1]) + 1
    IN  [n \in 1..Cardinality(starts) |-> LineAt(s, nth[n])]

(***************************************************************************)
(* yaml.parse, as far as the parsers look at its result: the kind of the   *)
(* value of a top-level key, the entries of a block, a scalar.             *)
(***************************************************************************)
\* the line of the top-level key `key`, 0 when the document has none
TopKeyLine(s, key) ==
    LET hits == {i \in LineStarts(s) : StartsAt(s, i, key \o <<":">>)}
    IN  IF hits = {} THEN 0 ELSE CHOOSE i \in hits : \A j \in hits : i <= j

\* the first line after line i that is not blank, 0 when there is none
NextLine(s, i) ==
    LET later == {j \in LineStarts(s) : j > i /\ ~IsBlankLine(s, j)}
    IN  IF later = {} THEN 0 ELSE CHOOSE j \in later : \A k \in later : j <= k

\* typeof parsed[key]: "absent", "null", "scalar", "mapping" or "sequence"
YamlKind(s, key) ==
    LET i == TopKeyLine(s, key)
        v == SkipBlank(s, i + Len(key) + 1)
        n == NextLine(s, i)
    IN  IF i = 0 THEN "absent"
        ELSE IF v <= Len(s) /\ s[v] # NL /\ s[v] # "#" THEN "scalar"
        ELSE IF n = 0 THEN "null"
        ELSE IF StartsAt(s, SkipBlank(s, n), <<"-", " ">>) THEN "sequence"
        ELSE IF Indent(s, n) > 0 THEN "mapping"
        ELSE "null"

\* the lines of the block under the top-level key at line i
BlockLines(s, i) ==
    LET starts == {j \in LineStarts(s) : j > i /\ ~IsBlankLine(s, j)}
        \* the first line after i that belongs to the next top-level key
        ends == {k \in starts : Indent(s, k) = 0 /\ ~StartsAt(s, k, <<"-", " ">>)}
        stop == IF ends = {} THEN Len(s) + 1 ELSE CHOOSE k \in ends : \A h \in ends : k <= h
    IN  {j \in starts : j < stop}

\* a plain, single-quoted or double-quoted scalar that starts at position v,
\* without its quotes and without a trailing comment
RECURSIVE PlainEnd(_, _)
PlainEnd(s, v) ==
    IF v > Len(s) \/ s[v] = NL THEN v
    ELSE IF IsBlank(s[v]) /\ (LET w == SkipBlank(s, v) IN w > Len(s) \/ s[w] = NL \/ s[w] = "#")
         THEN v
         ELSE PlainEnd(s, v + 1)

RECURSIVE QuotedEnd(_, _, _)
QuotedEnd(s, v, quote) ==
    IF v > Len(s) \/ s[v] = NL \/ s[v] = quote THEN v ELSE QuotedEnd(s, v + 1, quote)

ScalarAt(s, v) ==
    IF v > Len(s) \/ s[v] = NL \/ s[v] = "#" THEN <<>>
    ELSE IF IsQuote(s[v]) THEN SubSeq(s, v + 1, QuotedEnd(s, v + 1, s[v]) - 1)
    ELSE SubSeq(s, v, PlainEnd(s, v) - 1)

\* the position after `key:` and the blanks that follow it, on the line i
\* whose first word is key
ValueStart(s, i, key) == SkipBlank(s, SkipBlank(s, i) + Len(key) + 1)

\* line i is the entry `key: ...` of a mapping
IsEntry(s, i, key) == StartsAt(s, SkipBlank(s, i), key \o <<":">>)


(***************************************************************************)
(* Format detection and the items of a workflow document                   *)
(***************************************************************************)
\* parsed.workflows && typeof parsed.workflows === 'object' && !Array.isArray(...)
isNewFormat(s) == YamlKind(s, K_workflows) = "mapping"

\* parsed.workflow_status && typeof ... === 'object' && !Array.isArray(...)
isFlatFormat(s) == YamlKind(s, K_workflow_status) = "mapping"

DetectFormat(s) ==
    IF isNewFormat(s) THEN "new" ELSE IF isFlatFormat(s) THEN "flat" ELSE "old"

Min(S) == CHOOSE i \in S : \A j \in S : i <= j

\* the entries of the mapping under the top-level key: the block lines at
\* the indentation of the block's first line
\* the lines of the block under the top-level key, {} without the key
BlockOf(s, key) ==
    LET hdr == TopKeyLine(s, key) IN IF hdr = 0 THEN {} ELSE BlockLines(s, hdr)

EntriesIn(s, block) ==
    LET first == Indent(s, Min(block)) IN {e \in block : Indent(s, e) = first}

Entries(s, key) == EntriesIn(s, BlockOf(s, key))

\* the lines that belong to the entry (or array element) at line e
FieldLinesIn(s, block, e) ==
    LET later == {f \in block : f > e}
        \* the first line after e that is not indented deeper than e
        ends == {k \in later : Indent(s, k) <= Indent(s, e)}
        stop == IF ends = {} THEN Len(s) + 1 ELSE Min(ends)
    IN  {f \in later : f < stop}

FieldLines(s, key, e) == FieldLinesIn(s, BlockOf(s, key), e)

\* the line among `fields` that holds the field, 0 when none does
FieldIn(s, fields, field) ==
    LET hits == {f \in fields : IsEntry(s, f, field)}
    IN  IF hits = {} THEN 0 ELSE Min(hits)

\* the line of field `field` of the entry at line e, 0 when it has none
FieldLine(s, key, e, field) == FieldIn(s, FieldLines(s, key, e), field)

\* the `- id: <id>` line of an array element
IsElement(s, e, itemId) ==
    LET d == SkipBlank(s, e)
    IN  /\ StartsAt(s, d, <<"-"," ","i","d",":"," ">>)
        /\ ScalarAt(s, d + Len(<<"-"," ","i","d",":"," ">>)) = itemId

\* the line that starts the item `itemId` in a document of format fmt, 0 when
\* the document has no such item
ItemLine(s, fmt, itemId) ==
    LET hits ==
          IF fmt = "new" THEN {e \in Entries(s, K_workflows) : IsEntry(s, e, itemId)}
          ELSE IF fmt = "flat" THEN {e \in Entries(s, K_workflow_status) : IsEntry(s, e, itemId)}
          ELSE {e \in Entries(s, K_workflow_status) : IsElement(s, e, itemId)}
    IN  IF hits = {} THEN 0 ELSE Min(hits)

\* the line that holds the status value of the item, 0 when there is none
StatusLine(s, fmt, itemId) ==
    LET e == ItemLine(s, fmt, itemId)
    IN  IF e = 0 THEN 0
        ELSE IF fmt = "new" THEN FieldLine(s, K_workflows, e, K_status)
        ELSE IF fmt = "flat" THEN e
        ELSE FieldLine(s, K_workflow_status, e, K_status)

\* the position at which the status value of the item starts
StatusValueStart(s, fmt, itemId) ==
    ValueStart(s, StatusLine(s, fmt, itemId), IF fmt = "flat" THEN itemId ELSE K_status)

\* workflowData.output_file of a nested item, <<>> when absent
OutputFileOf(s, itemId) ==
    LET e == ItemLine(s, "new", itemId)
        f == FieldLine(s, K_workflows, e, K_output_file)
    IN  IF e = 0 \/ f = 0 THEN <<>> ELSE ScalarAt(s, ValueStart(s, f, K_output_file))

\* the status that parseNewFormat / parseFlatFormat / parseOldFormat report
\* for the item (<<>> when the document gives none)
ParsedStatus(s, fmt, itemId) ==
    LET l == StatusLine(s, fmt, itemId)
        raw == IF l = 0 THEN <<>> ELSE ScalarAt(s, StatusValueStart(s, fmt, itemId))
    IN  IF fmt = "new"
        THEN LET status == IF raw = <<>> THEN S_not_started ELSE raw
             IN  IF status = S_complete /\ OutputFileOf(s, itemId) # <<>>
                 THEN OutputFileOf(s, itemId)
                 ELSE IF status = S_not_started THEN S_required ELSE status
        ELSE raw

\* the line of a story (or epic) in a sprint document, 0 when absent
StoryLine(s, storyId) ==
    LET hits == {e \in Entries(s, K_development_status) : IsEntry(s, e, storyId)}
    IN  IF hits = {} THEN 0 ELSE Min(hits)


(***************************************************************************)
(* The workflow parsers (workflowParser.ts)                                *)
(***************************************************************************)
\* the value undefined of a string field
Undefined == <<"undefined">>

\* JavaScript values of the field phase
Number(n) == [type |-> "number", num |-> n, str |-> <<>>]

String(str) == [type |-> "string", num |-> 0, str |-> str]

UndefinedValue == [type |-> "undefined", num |-> 0, str |-> <<>>]

K_notes == <<"n","o","t","e","s">>

K_note == <<"n","o","t","e">>

K_agent == <<"a","g","e","n","t">>

K_command == <<"c","o","m","m","a","n","d">>

K_id == <<"i","d">>

I_research == <<"r","e","s","e","a","r","c","h">>

A_pm == <<"p","m">>

A_analyst == <<"a","n","a","l","y","s","t">>

S_prerequisite == <<"p","r","e","r","e","q","u","i","s","i","t","e">>

WORKFLOW_PHASE_MAP ==
    (<<"b","r","a","i","n","s","t","o","r","m">> :> 0) @@
    (<<"b","r","a","i","n","s","t","o","r","m","-","p","r","o","j","e","c","t">> :> 0) @@
    (<<"r","e","s","e","a","r","c","h">> :> 0) @@
    (<<"p","r","o","d","u","c","t","-","b","r","i","e","f">> :> 0) @@
    (<<"p","r","d">> :> 1) @@
    (<<"v","a","l","i","d","a","t","e","-","p","r","d">> :> 1) @@
    (<<"u","x","-","d","e","s","i","g","n">> :> 1) @@
    (<<"c","r","e","a","t","e","-","u","x","-","d","e","s","i","g","n">> :> 1) @@
    (<<"a","r","c","h","i","t","e","c","t","u","r","e">> :> 2) @@
    (<<"c","r","e","a","t","e","-","a","r","c","h","i","t","e","c","t","u","r","e">> :> 2) @@
    (<<"e","p","i","c","s","-","s","t","o","r","i","e","s">> :> 2) @@
    (<<"c","r","e","a","t","e","-","e","p","i","c","s","-","a","n","d","-","s","t","o","r","i","e","s">> :> 2) @@
    (<<"t","e","s","t","-","d","e","s","i","g","n">> :> 2) @@
    (<<"i","m","p","l","e","m","e","n","t","a","t","i","o","n","-","r","e","a","d","i","n","e","s","s">> :> 2) @@
    (<<"s","p","r","i","n","t","-","p","l","a","n","n","i","n","g">> :> 3)

WORKFLOW_AGENT_MAP ==
    (<<"b","r","a","i","n","s","t","o","r","m">> :> <<"a","n","a","l","y","s","t">>) @@
    (<<"b","r","a","i","n","s","t","o","r","m","-","p","r","o","j","e","c","t">> :> <<"a","n","a","l","y","s","t">>) @@
    (<<"r","e","s","e","a","r","c","h">> :> <<"a","n","a","l","y","s","t">>) @@
    (<<"p","r","o","d","u","c","t","-","b","r","i","e","f">> :> <<"a","n","a","l","y","s","t">>) @@
    (<<"p","r","d">> :> <<"p","m">>) @@
    (<<"v","a","l","i","d","a","t","e","-","p","r","d">> :> <<"p","m">>) @@
    (<<"u","x","-","d","e","s","i","g","n">> :> <<"u","x","-","d","e","s","i","g","n","e","r">>) @@
    (<<"c","r","e","a","t","e","-","u","x","-","d","e","s","i","g","n">> :> <<"u","x","-","d","e","s","i","g","n","e","r">>) @@
    (<<"a","r","c","h","i","t","e","c","t","u","r","e">> :> <<"a","r","c","h","i","t","e","c","t">>) @@
    (<<"c","r","e","a","t","e","-","a","r","c","h","i","t","e","c","t","u","r","e">> :> <<"a","r","c","h","i","t","e","c","t">>) @@
    (<<"e","p","i","c","s","-","s","t","o","r","i","e","s">> :> <<"p","m">>) @@
    (<<"c","r","e","a","t","e","-","e","p","i","c","s","-","a","n","d","-","s","t","o","r","i","e","s">> :> <<"p","m">>) @@
    (<<"t","e","s","t","-","d","e","s","i","g","n">> :> <<"t","e","a">>) @@
    (<<"i","m","p","l","e","m","e","n","t","a","t","i","o","n","-","r","e","a","d","i","n","e","s","s">> :> <<"a","r","c","h","i","t","e","c","t">>) @@
    (<<"s","p","r","i","n","t","-","p","l","a","n","n","i","n","g">> :> <<"s","m">>)

\* WORKFLOW_PHASE_MAP[workflowId] ?? 1
inferPhase(workflowId) ==
    IF workflowId \in DOMAIN WORKFLOW_PHASE_MAP THEN WORKFLOW_PHASE_MAP[workflowId] ELSE 1

\* WORKFLOW_AGENT_MAP[workflowId] ?? 'pm'
inferAgent(workflowId) ==
    IF workflowId \in DOMAIN WORKFLOW_AGENT_MAP THEN WORKFLOW_AGENT_MAP[workflowId] ELSE A_pm

\* workflowId.replace(/-/g, '-')
inferCommand(workflowId) ==
    [n \in 1..Len(workflowId) |-> IF workflowId[n] = "-" THEN "-" ELSE workflowId[n]]

\* the elements of a set of positions, ascending (document order)
RECURSIVE Ascending(_)
Ascending(S) ==
    IF S = {} THEN <<>> ELSE LET m == Min(S) IN <<m>> \o Ascending(S \ {m})

RECURSIVE KeyEnd(_, _)
KeyEnd(s, i) == IF i > Len(s) \/ s[i] = NL \/ s[i] = ":" THEN i ELSE KeyEnd(s, i + 1)

\* the key of the mapping entry at line e
KeyOf(s, e) == SubSeq(s, SkipBlank(s, e), KeyEnd(s, SkipBlank(s, e)) - 1)

\* the entry at line e has the value null: nothing after the colon and no
\* lines of its own
IsNullEntry(s, block, e) ==
    /\ ScalarAt(s, ValueStart(s, e, KeyOf(s, e))) = <<>>
    /\ FieldLinesIn(s, block, e) = {}

\* data[field] of the entry at line e: Undefined when the entry has no such
\* field
FieldValue(s, fields, field) ==
    LET f == FieldIn(s, fields, field)
    IN  IF f = 0 THEN Undefined ELSE ScalarAt(s, ValueStart(s, f, field))

\* a value that `||` and `&&` take as false
Falsy(v) == v = Undefined \/ v = <<>>

\* value.includes('/') || /\.(md|yaml|yml|json|txt)$/.test(value)
isFilePath(value) ==
    \/ \E n \in 1..Len(value) : value[n] = "/"
    \/ \E ext \in {<<".","m","d">>, <<".","y","a","m","l">>, <<".","y","m","l">>, <<".","j","s","o","n">>, <<".","t","x","t">>} :
          Len(value) >= Len(ext) /\ StartsAt(value, Len(value) - Len(ext) + 1, ext)

\* String.prototype.localeCompare on identifiers of lower-case letters,
\* digits and hyphens: the hyphen sorts before the digits, the digits before
\* the letters, a prefix before its extensions
Collation ==
    <<"-","0","1","2","3","4","5","6","7","8","9","a","b","c","d","e","f","g","h","i","j","k","l","m","n","o","p","q","r","s","t","u","v","w","x","y","z">>

CharRank(c) == CHOOSE n \in 1..Len(Collation) : Collation[n] = c

RECURSIVE localeCompare(_, _)
localeCompare(a, b) ==
    IF a = <<>> THEN (IF b = <<>> THEN 0 ELSE -1)
    ELSE IF b = <<>> THEN 1
    ELSE IF Head(a) = Head(b) THEN localeCompare(Tail(a), Tail(b))
    ELSE IF CharRank(Head(a)) < CharRank(Head(b)) THEN -1 ELSE 1

\* the comparator of items.sort: by phase, then by id
CompareItems(a, b) ==
    IF a.phase.num # b.phase.num THEN a.phase.num - b.phase.num
    ELSE localeCompare(a.id, b.id)

\* Array.prototype.sort (stable): x goes after the elements that do not
\* compare greater than x
RECURSIVE InsertItem(_, _)
InsertItem(sorted, x) ==
    IF sorted = <<>> THEN <<x>>
    ELSE IF CompareItems(sorted[Len(sorted)], x) <= 0 THEN Append(sorted, x)
    ELSE Append(InsertItem(SubSeq(sorted, 1, Len(sorted) - 1), x), sorted[Len(sorted)])

RECURSIVE SortItems(_)
SortItems(items) ==
    IF items = <<>> THEN <<>>
    ELSE InsertItem(SortItems(SubSeq(items, 1, Len(items) - 1)), items[Len(items)])

\* the item that parseNewFormat pushes for the entry at line e
NewItemAt(s, block, e) ==
    LET id == KeyOf(s, e)
        workflowData == FieldLinesIn(s, block, e)
        raw == FieldValue(s, workflowData, K_status)
        output_file == FieldValue(s, workflowData, K_output_file)
        notes == FieldValue(s, workflowData, K_notes)
        status0 == IF Falsy(raw) THEN S_not_started ELSE raw
        status == IF status0 = S_complete /\ ~Falsy(output_file) THEN output_file
                  ELSE IF status0 = S_not_started THEN S_required
                  ELSE status0
    IN  [id |-> id, phase |-> Number(inferPhase(id)), status |-> status,
         agent |-> inferAgent(id), command |-> inferCommand(id),
         note |-> IF Falsy(notes) THEN FieldValue(s, workflowData, K_note) ELSE notes,
         outputFile |-> output_file]

\* parseNewFormat: the sorted items, or threw when an entry is null (the
\* access workflowData.status fails)
parseNewFormat(s) ==
    LET workflows == BlockOf(s, K_workflows)
        entries == Ascending(EntriesIn(s, workflows))
    IN  IF \E n \in 1..Len(entries) : IsNullEntry(s, workflows, entries[n])
        THEN [threw |-> TRUE, items |-> <<>>]
        ELSE [threw |-> FALSE,
              items |-> SortItems([n \in 1..Len(entries) |->
                                      NewItemAt(s, workflows, entries[n])])]

\* the item that parseFlatFormat pushes for the entry at line e
FlatItemAt(s, e) ==
    LET id == KeyOf(s, e)
        status == ScalarAt(s, ValueStart(s, e, id))
    IN  [id |-> id, phase |-> Number(inferPhase(id)), status |-> status,
         agent |-> inferAgent(id), command |-> inferCommand(id),
         note |-> Undefined,
         outputFile |-> IF isFilePath(status) THEN status ELSE Undefined]

\* parseFlatFormat: the sorted items, or threw when an entry is null (the
\* call status.includes fails)
parseFlatFormat(s) ==
    LET workflowStatus == BlockOf(s, K_workflow_status)
        entries == Ascending(EntriesIn(s, workflowStatus))
    IN  IF \E n \in 1..Len(entries) : IsNullEntry(s, workflowStatus, entries[n])
        THEN [threw |-> TRUE, items |-> <<>>]
        ELSE [threw |-> FALSE,
              items |-> SortItems([n \in 1..Len(entries) |-> FlatItemAt(s, entries[n])])]

IsDigit(c) == c \in {"0", "1", "2", "3", "4", "5", "6", "7", "8", "9"}

DigitOf(c) == CharRank(c) - 2

\* the number a run of digits denotes
RECURSIVE DigitsValue(_)
DigitsValue(d) ==
    IF d = <<>> THEN 0 ELSE 10 * DigitsValue(SubSeq(d, 1, Len(d) - 1)) + DigitOf(d[Len(d)])

\* the field `field` of the array element that starts at line e (`- key: value`
\* with further fields on the lines below): the position of its value, 0 when
\* the element has no such field
ElementValueStart(s, fields, e, field) ==
    LET d == SkipBlank(s, e) + 2
        f == FieldIn(s, fields, field)
    IN  IF StartsAt(s, d, field \o <<":">>) THEN SkipBlank(s, d + Len(field) + 1)
        ELSE IF f = 0 THEN 0
        ELSE ValueStart(s, f, field)

\* item[field] as a string
ElementField(s, fields, e, field) ==
    LET v == ElementValueStart(s, fields, e, field)
    IN  IF v = 0 THEN Undefined ELSE ScalarAt(s, v)

\* item.phase: a plain scalar of digits is a number, any other scalar a string
ElementPhase(s, fields, e) ==
    LET v == ElementValueStart(s, fields, e, K_phase)
        scalar == ScalarAt(s, v)
    IN  IF v = 0 THEN UndefinedValue
        ELSE IF scalar # <<>> /\ ~IsQuote(s[v]) /\ \A n \in 1..Len(scalar) : IsDigit(scalar[n])
        THEN Number(DigitsValue(scalar))
        ELSE String(scalar)

\* the item that parseOldFormat maps the element at line e to
OldItemAt(s, block, e) ==
    LET item == FieldLinesIn(s, block, e)
    IN  [id |-> ElementField(s, item, e, K_id), phase |-> ElementPhase(s, item, e),
         status |-> ElementField(s, item, e, K_status),
         agent |-> ElementField(s, item, e, K_agent),
         command |-> ElementField(s, item, e, K_command),
         note |-> ElementField(s, item, e, K_note),
         outputFile |-> Undefined]

\* parseOldFormat: (parsed.workflow_status || []).map(...); a string has no
\* method map
parseOldFormat(s) ==
    LET kind == YamlKind(s, K_workflow_status)
        block == BlockOf(s, K_workflow_status)
        elements == Ascending(EntriesIn(s, block))
    IN  IF kind = "scalar" THEN [threw |-> TRUE, items |-> <<>>]
        ELSE IF kind = "sequence"
        THEN [threw |-> FALSE,
              items |-> [n \in 1..Len(elements) |-> OldItemAt(s, block, elements[n])]]
        ELSE [threw |-> FALSE, items |-> <<>>]

\* parseWorkflowStatus: parsed.workflows && typeof parsed.workflows === 'object'
\* && !Array.isArray(parsed.workflows)
isNewFormatOnParse(s) ==
    LET kind == YamlKind(s, K_workflows)
    IN  /\ kind \notin {"absent", "null"}
        /\ kind \in {"mapping", "sequence"}
        /\ kind # "sequence"

\* parseWorkflowStatus: the same test on parsed.workflow_status
isFlatFormatOnParse(s) ==
    LET kind == YamlKind(s, K_workflow_status)
    IN  /\ kind \notin {"absent", "null"}
        /\ kind \in {"mapping", "sequence"}
        /\ kind # "sequence"

\* a parser selection that tests the flat format first
ParseFormat_FlatFirst(s) ==
    IF isFlatFormatOnParse(s) THEN "flat"
    ELSE IF isNewFormatOnParse(s) THEN "new"
    ELSE "old"

\* the parser that parseWorkflowStatus selects
ParseFormat(s) ==
    IF isNewFormatOnParse(s) THEN "new"
    ELSE IF isFlatFormatOnParse(s) THEN "flat"
    ELSE "old"

\* yaml.parse throws on a double-quoted scalar that is not closed before the
\* end of the document
YamlSyntaxError(s) ==
    \E v \in 3..Len(s) :
        /\ s[v] = DQ /\ s[v - 1] = " " /\ s[v - 2] = ":"
        /\ \A w \in (v + 1)..Len(s) : s[w] # DQ


(***************************************************************************)
(* The sprint parser (sprintParser.ts)                                     *)
(***************************************************************************)
K_epic_ == <<"e","p","i","c","-">>

W_retrospective == <<"r","e","t","r","o","s","p","e","c","t","i","v","e">>

W_Epic == <<"E","p","i","c"," ">>

I_epic_2 == <<"e","p","i","c","-","2">>

I_epic_10 == <<"e","p","i","c","-","1","0">>

I_1_retrospective == <<"1","-","r","e","t","r","o","s","p","e","c","t","i","v","e">>

\* String.prototype.includes
Includes(str, lit) == \E i \in 1..Len(str) : StartsAt(str, i, lit)

RECURSIVE SkipDigits(_, _)
SkipDigits(s, i) == IF i <= Len(s) /\ IsDigit(s[i]) THEN SkipDigits(s, i + 1) ELSE i

\* key.match(/^epic-(\d+)$/): the group, <<>> without a match
EpicNumOf(key) ==
    LET rest == SubSeq(key, Len(K_epic_) + 1, Len(key))
    IN  IF StartsAt(key, 1, K_epic_) /\ rest # <<>> /\ SkipDigits(rest, 1) > Len(rest)
        THEN rest ELSE <<>>

\* key.match(/^(\d+)-/): the group, <<>> without a match
StoryEpicNumOf(key) ==
    LET n == SkipDigits(key, 1)
    IN  IF n > 1 /\ n <= Len(key) /\ key[n] = "-" THEN SubSeq(key, 1, n - 1) ELSE <<>>

\* Object.entries(devStatus): the entry lines in document order; no entry has
\* a key of interest unless development_status is a mapping
DevStatusEntries(s) ==
    IF YamlKind(s, K_development_status) = "mapping"
    THEN Ascending(Entries(s, K_development_status))
    ELSE <<>>

\* a second pass that keeps the retrospective keys
IsStoryOf_WithRetrospectives(key, epicNum) ==
    /\ EpicNumOf(key) = <<>>
    /\ StoryEpicNumOf(key) = epicNum

\* the second pass takes the key as a story of the epic numbered epicNum
IsStoryOf(key, epicNum) ==
    /\ EpicNumOf(key) = <<>>
    /\ ~Includes(key, W_retrospective)
    /\ StoryEpicNumOf(key) = epicNum

\* epic.stories after the second pass
StoriesOf(s, entries, epicNum) ==
    LET Test(e) == IsStoryOf(KeyOf(s, e), epicNum)
        lines == SelectSeq(entries, Test)
    IN  [n \in 1..Len(lines) |->
            [id |-> KeyOf(s, lines[n]),
             status |-> ScalarAt(s, ValueStart(s, lines[n], KeyOf(s, lines[n]))),
             epicId |-> K_epic_ \o epicNum]]

\* the epic of the first pass for the entry at line e, with its stories
EpicAt(s, entries, e) ==
    LET key == KeyOf(s, e)
        epicNum == EpicNumOf(key)
    IN  [id |-> key, name |-> W_Epic \o epicNum,
         status |-> ScalarAt(s, ValueStart(s, e, key)),
         stories |-> StoriesOf(s, entries, epicNum)]

\* a comparison of the epics by the first digit of their number
EpicNumber_FirstDigit(epic) == DigitOf(epic.id[Len(K_epic_) + 1])

\* parseInt(a.id.replace('epic-', ''))
EpicNumber(epic) == DigitsValue(SubSeq(epic.id, Len(K_epic_) + 1, Len(epic.id)))

RECURSIVE InsertEpic(_, _)
InsertEpic(sorted, x) ==
    IF sorted = <<>> THEN <<x>>
    ELSE IF EpicNumber(sorted[Len(sorted)]) - EpicNumber(x) <= 0 THEN Append(sorted, x)
    ELSE Append(InsertEpic(SubSeq(sorted, 1, Len(sorted) - 1), x), sorted[Len(sorted)])

RECURSIVE SortEpics(_)
SortEpics(epics) ==
    IF epics = <<>> THEN <<>>
    ELSE InsertEpic(SortEpics(SubSeq(epics, 1, Len(epics) - 1)), epics[Len(epics)])

\* the epics of the document: Array.from(epicsMap.values()).sort(...)
SprintEpics(s) ==
    LET entries == DevStatusEntries(s)
        Test(e) == EpicNumOf(KeyOf(s, e)) # <<>>
        lines == SelectSeq(entries, Test)
    IN  SortEpics([n \in 1..Len(lines) |-> EpicAt(s, entries, lines[n])])


(***************************************************************************)
(* Paths and the file system                                               *)
(***************************************************************************)
P_ws == <<"w","s">>

P_WS == <<"W","S">>

P_ws_o == <<"w","s","-","o">>

P_etc == <<"e","t","c">>

P_ln == <<"l","n">>

P_wf == <<"w","f">>

P_sp == <<"s","p">>

P_a == <<"a">>

DotDot == <<".", ".">>

Dot == <<".">>

\* path.sep
Sep == "/"

\* process.cwd()
Cwd == <<P_ws>>

RECURSIVE SplitFrom(_, _, _)
\* the components of a path string: the pieces between separators, empty
\* pieces dropped
SplitFrom(str, i, cur) ==
    IF i > Len(str)
    THEN IF cur = <<>> THEN <<>> ELSE <<cur>>
    ELSE IF str[i] = Sep
         THEN (IF cur = <<>> THEN <<>> ELSE <<cur>>) \o SplitFrom(str, i + 1, <<>>)
         ELSE SplitFrom(str, i + 1, Append(cur, str[i]))

SplitPath(str) == SplitFrom(str, 1, <<>>)

IsAbsolute(str) == Len(str) > 0 /\ str[1] = Sep

Parent(comps) == IF comps = <<>> THEN <<>> ELSE SubSeq(comps, 1, Len(comps) - 1)

RECURSIVE NormalizeComps(_, _)
\* textual normalisation: `.` dropped, `..` removes the component before it
NormalizeComps(done, rest) ==
    IF rest = <<>> THEN done
    ELSE IF Head(rest) = Dot THEN NormalizeComps(done, Tail(rest))
    ELSE IF Head(rest) = DotDot THEN NormalizeComps(Parent(done), Tail(rest))
    ELSE NormalizeComps(Append(done, Head(rest)), Tail(rest))

RECURSIVE JoinComps(_)
JoinComps(comps) ==
    IF comps = <<>> THEN <<>> ELSE <<Sep>> \o Head(comps) \o JoinComps(Tail(comps))

\* the absolute path string of a component sequence
JoinAbs(comps) == IF comps = <<>> THEN <<Sep>> ELSE JoinComps(comps)

\* path.resolve(p)
PathResolve(str) ==
    JoinAbs(NormalizeComps(<<>>, (IF IsAbsolute(str) THEN <<>> ELSE Cwd) \o SplitPath(str)))

\* path.normalize(p) of an absolute path without a trailing separator
PathNormalize(str) == JoinAbs(NormalizeComps(<<>>, SplitPath(str)))

\* String.prototype.toLowerCase over the characters of the paths
LowerChar(c) == IF c = "W" THEN "w" ELSE IF c = "S" THEN "s" ELSE c

ToLowerCase(str) == [n \in 1..Len(str) |-> LowerChar(str[n])]

\* String.prototype.startsWith
StartsWith(str, prefix) == StartsAt(str, 1, prefix)

\* the directories of the disk, and the one symbolic link: /ws/ln -> /etc
Dirs == {<<>>, <<P_ws>>, <<P_etc>>, <<P_ws_o>>}

LinkAt == <<P_ws, P_ln>>

LinkTarget == <<P_etc>>

\* the regular files of the disk
FileNodes == {<<P_ws, P_wf>>, <<P_ws, P_sp>>, <<P_etc, P_wf>>}

NoNode == <<<<"?">>>>

RECURSIVE Walk(_, _)
\* the node the operating system reaches from directory cur along the
\* components rest: symbolic links are followed, `..` is the parent of the
\* directory reached so far; NoNode when a component does not exist
Walk(cur, rest) ==
    IF rest = <<>> THEN cur
    ELSE IF cur \in FileNodes THEN NoNode
    ELSE IF Head(rest) = Dot THEN Walk(cur, Tail(rest))
    ELSE IF Head(rest) = DotDot THEN Walk(Parent(cur), Tail(rest))
    ELSE LET nxt == Append(cur, Head(rest))
             real == IF nxt = LinkAt THEN LinkTarget ELSE nxt
         IN  IF real \in Dirs \cup FileNodes THEN Walk(real, Tail(rest)) ELSE NoNode

\* the node a path string names for the operating system
NodeOf(str) == Walk(IF IsAbsolute(str) THEN <<>> ELSE Cwd, SplitPath(str))

\* fs.existsSync(p)
ExistsSync(str) == NodeOf(str) # NoNode

\* fs.realpathSync(p) of an existing path
RealpathSync(str) == JoinAbs(NodeOf(str))


(***************************************************************************)
(* isInsideWorkspace (pathValidation.ts)                                   *)
(***************************************************************************)
\* the comparison of isInsideWorkspace without the path separator
ContainedNoSep(normalizedFile, normalizedRoot) ==
    StartsWith(normalizedFile, normalizedRoot) \/ normalizedFile = normalizedRoot

\* normalizedFile.startsWith(normalizedRoot + path.sep) || normalizedFile === normalizedRoot
Contained(normalizedFile, normalizedRoot) ==
    \/ StartsWith(normalizedFile, normalizedRoot \o <<Sep>>)
    \/ normalizedFile = normalizedRoot

\* realFilePath: the real path when the resolved path exists, else the resolved path
RealOrResolved(resolved) ==
    IF ExistsSync(resolved) THEN RealpathSync(resolved) ELSE resolved

\* path.normalize(real).toLowerCase()
NormalizedForm(str) == ToLowerCase(PathNormalize(RealOrResolved(PathResolve(str))))

isInsideWorkspace(filePath, root) ==
    Contained(NormalizedForm(filePath), NormalizedForm(root))

\* the internal steps that can throw: path.resolve (an argument that is not a
\* string), fs.realpathSync of the file or of the root (the path vanished or
\* became unreadable after fs.existsSync answered true)
Faults == {"none", "resolve", "realpathFile", "realpathRoot"}

\* the try block throws under the fault
Throws(filePath, root, fault) ==
    \/ fault = "resolve"
    \/ fault = "realpathFile" /\ ExistsSync(PathResolve(filePath))
    \/ fault = "realpathRoot" /\ ExistsSync(PathResolve(root))

\* a catch clause that lets the error escape
CatchRethrows == [ok |-> FALSE, raised |-> TRUE]

\* catch { return false; }
Catch == [ok |-> FALSE, raised |-> FALSE]

\* isInsideWorkspace with its try / catch, in an environment with the fault
TryIsInsideWorkspace(filePath, root, fault) ==
    IF Throws(filePath, root, fault) THEN Catch
    ELSE [ok |-> isInsideWorkspace(filePath, root), raised |-> FALSE]

(***************************************************************************)
(* Module state of the two parsers and the calls                           *)
(***************************************************************************)
\* the value null of workspaceRoot
Null == <<"null">>

\* `workspaceRoot && ...`: null and the empty string are falsy
Truthy(root) == root # Null /\ root # <<>>

NoError == "null"

OutsideWorkspaceError == "Path validation failed: file outside workspace"

\* yaml.parse returns null for a document without content, and the property
\* access on it throws
IsEmptyDoc(s) == \A i \in LineStarts(s) : IsBlankLine(s, i)

Event(kind, filePath, ok) == [kind |-> kind, path |-> filePath, ok |-> ok]

\* the check `workspaceRoot && !isInsideWorkspace(filePath, workspaceRoot)`:
\* the validation that was run, if any
ValidationEvents(filePath, root) ==
    IF Truthy(root) THEN <<Event("validate", filePath, isInsideWorkspace(filePath, root))>>
    ELSE <<>>

Rejected(filePath, root) == Truthy(root) /\ ~isInsideWorkspace(filePath, root)

\* fs.existsSync(filePath) and a readable regular file behind it
Readable(filePath) == NodeOf(filePath) \in DOMAIN files

Call(op, filePath, id, status, ok, io) ==
    [op |-> op, path |-> filePath, root |-> <<>>, id |-> id, status |-> status,
     ok |-> ok, before |-> files, io |-> io, fmt |-> "none", result |-> <<>>,
     errorBefore |-> NoError, fault |-> "none", raised |-> FALSE]

setWorkspaceRoot(root) ==
    /\ workspaceRoot' = root
    /\ UNCHANGED <<extensionVars, wasmVars, watcherVars>>
    /\ UNCHANGED <<files, sprintWorkspaceRoot, lastWorkflowParseError,
                   lastSprintParseError, last, calls>>

setSprintWorkspaceRoot(root) ==
    /\ sprintWorkspaceRoot' = root
    /\ UNCHANGED <<extensionVars, wasmVars, watcherVars>>
    /\ UNCHANGED <<files, workspaceRoot, lastWorkflowParseError,
                   lastSprintParseError, last, calls>>

\* the text that updateWorkflowItemStatus writes, or the unchanged content
\* with ok = FALSE when the pattern of the detected format does not match
UpdatedWorkflow(content, itemId, newStatus) ==
    LET fmt == DetectFormat(content)
        NewAt(i) == NewFormatMatchAt(content, itemId, i)
        FlatAt(i) == FlatFormatMatchAt(content, itemId, i)
        OldAt(i) == OldFormatMatchAt(content, itemId, i)
        m == IF fmt = "new" THEN FirstMatch(content, NewAt)
             ELSE IF fmt = "flat" THEN FirstMatch(content, FlatAt)
             ELSE FirstMatch(content, OldAt)
        quotedStatus == IF \E n \in 1..Len(newStatus) : newStatus[n] \in {"/", ":"}
                        THEN <<DQ>> \o newStatus \o <<DQ>> ELSE newStatus
        replacement == IF fmt = "new" THEN newStatus
                       ELSE IF fmt = "flat" THEN quotedStatus
                       ELSE <<DQ>> \o newStatus \o <<DQ>>
    IN  IF YamlSyntaxError(content) \/ IsEmptyDoc(content)
        THEN [ok |-> FALSE, text |-> content, fmt |-> "none"]
        ELSE IF ~m.ok
        THEN [ok |-> FALSE, text |-> content, fmt |-> fmt]
        ELSE [ok |-> TRUE, text |-> ReplaceMatch(content, m, replacement), fmt |-> fmt]

\* the text that updateStoryStatus writes
UpdatedStory(content, storyId, newStatus) ==
    LET At(i) == StoryMatchAt(content, storyId, i)
        m == FirstMatch(content, At)
    IN  IF ~m.ok
        THEN [ok |-> FALSE, text |-> content, fmt |-> "none"]
        ELSE [ok |-> TRUE, text |-> ReplaceMatch(content, m, newStatus), fmt |-> "none"]

\* the body shared by the two update functions, given the module's root and
\* the text transformation
Update(op, root, filePath, id, newStatus, Updated(_, _, _)) ==
    LET node == NodeOf(filePath)
        validation == ValidationEvents(filePath, root)
    IN  /\ calls < MaxCalls
        /\ calls' = calls + 1
        /\ UNCHANGED <<extensionVars, wasmVars, watcherVars>>
        /\ UNCHANGED <<workspaceRoot, sprintWorkspaceRoot, lastWorkflowParseError,
                       lastSprintParseError>>
        /\ IF Rejected(filePath, root) \/ ~Readable(filePath)
           THEN /\ files' = files
                /\ last' = Call(op, filePath, id, newStatus, FALSE, validation)
           ELSE \E u \in {Updated(files[node], id, newStatus)} :
                LET read == <<Event("read", filePath, TRUE)>>
                    write == <<Event("write", filePath, TRUE)>>
                IN  IF u.ok
                    THEN /\ files' = [files EXCEPT ![node] = u.text]
                         /\ last' = [Call(op, filePath, id, newStatus, TRUE,
                                          validation \o read \o write)
                                        EXCEPT !.fmt = u.fmt]
                    ELSE /\ files' = files
                         /\ last' = [Call(op, filePath, id, newStatus, FALSE,
                                          validation \o read)
                                        EXCEPT !.fmt = u.fmt]

updateWorkflowItemStatus(filePath, itemId, newStatus) ==
    Update("updateWorkflowItemStatus", workspaceRoot, filePath, itemId, newStatus,
           UpdatedWorkflow)

updateStoryStatus(filePath, storyId, newStatus) ==
    Update("updateStoryStatus", sprintWorkspaceRoot, filePath, storyId, newStatus,
           UpdatedStory)


ParseFailure == "TypeError: Cannot read properties of null"

ReadFailure == "EISDIR: illegal operation on a directory, read"

\* the body shared by parseWorkflowStatus and parseSprintStatus: the result
\* (a document or null), the parse error it leaves, the file operations
SyntaxFailure == "YAMLParseError: Missing closing quote"

\* the catch clause of the parsers: no document, the message kept
Failed(message) == [ok |-> FALSE, error |-> message, fmt |-> "none", result |-> <<>>]

\* the try block of parseWorkflowStatus on the text of the file
ParsedWorkflow(content) ==
    LET fmt == ParseFormat(content)
        r == IF fmt = "new" THEN parseNewFormat(content)
             ELSE IF fmt = "flat" THEN parseFlatFormat(content)
             ELSE parseOldFormat(content)
    IN  IF YamlSyntaxError(content) THEN Failed(SyntaxFailure)
        ELSE IF IsEmptyDoc(content) \/ r.threw THEN Failed(ParseFailure)
        ELSE [ok |-> TRUE, error |-> NoError, fmt |-> fmt, result |-> r.items]

\* the try block of parseSprintStatus on the text of the file
ParsedSprint(content) ==
    IF YamlSyntaxError(content) THEN Failed(SyntaxFailure)
    ELSE IF IsEmptyDoc(content) THEN Failed(ParseFailure)
    ELSE [ok |-> TRUE, error |-> NoError, fmt |-> "none", result |-> SprintEpics(content)]

\* a missing file sets the parse error to a message instead of clearing it
Absent_KeepsError == Failed(ReadFailure)

\* if (!fs.existsSync(filePath)) { set...ParseError(null); return null; }
Absent == Failed(NoError)

\* the body shared by parseWorkflowStatus and parseSprintStatus: the result
\* (a document or null), the parse error it leaves, the file operations
Parse(root, filePath, Parsed(_)) ==
    LET validation == ValidationEvents(filePath, root)
        read == <<Event("read", filePath, TRUE)>>
    IN  IF Rejected(filePath, root)
        THEN [doc |-> Failed(OutsideWorkspaceError), io |-> validation]
        ELSE IF ~ExistsSync(filePath)
        THEN [doc |-> Absent, io |-> validation]
        ELSE IF ~Readable(filePath)
        THEN [doc |-> Failed(ReadFailure), io |-> validation]
        ELSE [doc |-> Parsed(files[NodeOf(filePath)]), io |-> validation \o read]

parseWorkflowStatus(filePath) ==
    \E r \in {Parse(workspaceRoot, filePath, ParsedWorkflow)} :
        /\ calls < MaxParses
        /\ calls' = calls + 1
        /\ lastWorkflowParseError' = r.doc.error
        /\ last' = [Call("parseWorkflowStatus", filePath, <<>>, <<>>, r.doc.ok, r.io)
                        EXCEPT !.fmt = r.doc.fmt, !.result = r.doc.result,
                               !.errorBefore = lastWorkflowParseError]
        /\ UNCHANGED <<extensionVars, wasmVars, watcherVars>>
        /\ UNCHANGED <<files, workspaceRoot, sprintWorkspaceRoot, lastSprintParseError>>

parseSprintStatus(filePath) ==
    \E r \in {Parse(sprintWorkspaceRoot, filePath, ParsedSprint)} :
        /\ calls < MaxParses
        /\ calls' = calls + 1
        /\ lastSprintParseError' = r.doc.error
        /\ last' = [Call("parseSprintStatus", filePath, <<>>, <<>>, r.doc.ok, r.io)
                        EXCEPT !.fmt = r.doc.fmt, !.result = r.doc.result,
                               !.errorBefore = lastSprintParseError]
        /\ UNCHANGED <<extensionVars, wasmVars, watcherVars>>
        /\ UNCHANGED <<files, workspaceRoot, sprintWorkspaceRoot, lastWorkflowParseError>>

\* a call of isInsideWorkspace on the pending arguments
callIsInsideWorkspace ==
    /\ last.op = "arguments"
    /\ LET r == TryIsInsideWorkspace(last.path, last.root, last.fault)
       IN  last' = [last EXCEPT !.op = "isInsideWorkspace", !.ok = r.ok,
                                !.raised = r.raised]
    /\ UNCHANGED <<extensionVars, wasmVars, watcherVars>>
    /\ UNCHANGED <<files, workspaceRoot, sprintWorkspaceRoot, lastWorkflowParseError,
                   lastSprintParseError, calls>>

(***************************************************************************)
(* Documents                                                               *)
(***************************************************************************)
Sp(n) == [i \in 1..n |-> " "]

Comment == <<" "," ","#"," ","c">>

KeyLine(indent, key) == Sp(indent) \o key \o <<":", NL>>

Field(indent, key, value) == Sp(indent) \o key \o <<":", " ">> \o value \o <<NL>>

Quoted(value) == <<DQ>> \o value \o <<DQ>>

Styles == 1..3

\* an item of a nested document: plain; with a comment and an output_file;
\* with output_file before status
NewItem(id, style) ==
    IF style = 1 THEN KeyLine(2, id) \o Field(4, K_status, S_required)
    ELSE IF style = 2
    THEN KeyLine(2, id) \o Field(4, K_status, S_complete \o Comment)
                         \o Field(4, K_output_file, S_path)
    ELSE KeyLine(2, id) \o Field(4, K_output_file, S_path)
                         \o Field(4, K_status, S_complete)

\* an entry of a flat document: plain; quoted path with a comment; bare value
\* with a comment
FlatItem(id, style) ==
    IF style = 1 THEN Field(2, id, S_required)
    ELSE IF style = 2 THEN Field(2, id, Quoted(S_path) \o Comment)
    ELSE Field(2, id, S_required \o Comment)

DashId == <<"-"," ","i","d",":"," ">>

\* an element of a legacy document: plain; quoted, with phase and a comment;
\* without a status field
OldItem(id, style) ==
    IF style = 1 THEN Sp(2) \o DashId \o id \o <<NL>> \o Field(4, K_status, S_required)
    ELSE IF style = 2
    THEN Sp(2) \o DashId \o Quoted(id) \o <<NL>> \o Field(4, K_phase, <<"1">>)
               \o Field(4, K_status, Quoted(S_complete) \o Comment)
    ELSE Sp(2) \o DashId \o id \o <<NL>> \o Field(4, K_phase, <<"1">>)

RECURSIVE RenderItems(_, _)
RenderItems(fmt, items) ==
    IF items = <<>> THEN <<>>
    ELSE (IF fmt = "new" THEN NewItem(Head(items).id, Head(items).style)
          ELSE IF fmt = "flat" THEN FlatItem(Head(items).id, Head(items).style)
          ELSE OldItem(Head(items).id, Head(items).style))
         \o RenderItems(fmt, Tail(items))

\* a workflow document; with `extra`, the text of an item key also occurs
\* outside the items: a top-level mapping `prd:` with a status (nested), a
\* top-level key `prd` (flat), a top-level `status` after the array (legacy)
WorkflowDoc(fmt, extra, items) ==
    IF fmt = "new"
    THEN (IF extra THEN KeyLine(0, I_prd) \o Field(2, K_status, S_draft) ELSE <<>>)
         \o KeyLine(0, K_workflows) \o RenderItems(fmt, items)
    ELSE IF fmt = "flat"
    THEN (IF extra THEN Field(0, I_prd, S_draft) ELSE <<>>)
         \o KeyLine(0, K_workflow_status) \o RenderItems(fmt, items)
    ELSE KeyLine(0, K_workflow_status) \o RenderItems(fmt, items)
         \o (IF extra THEN Field(0, K_status, S_draft) ELSE <<>>)

ItemIds == {I_prd, I_prd_v, I_ux}

Formats == {"new", "flat", "old"}

\* item lists without a repeated id (the keys of a YAML mapping are unique)
ItemLists(ids, maxLen) ==
    UNION {{l \in [1..n -> [id : ids, style : Styles]] :
              \A i, j \in 1..n : i # j => l[i].id # l[j].id} : n \in 1..maxLen}

WorkflowDocs ==
    {WorkflowDoc(fmt, extra, items) :
        fmt \in Formats, extra \in BOOLEAN, items \in ItemLists(ItemIds, MaxItems)}

\* a story line: plain; with a comment; quoted
StoryItem(id, style) ==
    IF style = 1 THEN Field(2, id, S_backlog)
    ELSE IF style = 2 THEN Field(2, id, S_backlog \o Comment)
    ELSE Field(2, id, Quoted(S_backlog))

RECURSIVE RenderStories(_)
RenderStories(items) ==
    IF items = <<>> THEN <<>>
    ELSE StoryItem(Head(items).id, Head(items).style) \o RenderStories(Tail(items))

SprintDoc(items) ==
    Field(0, K_project, S_draft) \o KeyLine(0, K_development_status)
        \o Field(2, I_epic_1, S_backlog) \o RenderStories(items)

StoryIds == {I_1_1_login, I_1_2_signup}

SprintDocs == {SprintDoc(items) : items \in ItemLists(StoryIds, MaxItems)}

DefaultWorkflowDoc == WorkflowDoc("new", FALSE, <<[id |-> I_prd, style |-> 1]>>)

DefaultSprintDoc == SprintDoc(<<[id |-> I_1_1_login, style |-> 2]>>)

(***************************************************************************)
(* The state after construction of the extension, the loader, the watcher  *)
(***************************************************************************)
\* let lastWorkflowErrorMessage = null; let lastSprintErrorMessage = null
InitExtension ==
    /\ lastWorkflowErrorMessage = NoError
    /\ lastSprintErrorMessage = NoError
    /\ shown = <<>>

\* null in the three variables of the loader
None == [kind |-> "null", load |-> 0]

\* let wasmModuleCache = null; let wasmLoadPromise = null; let wasmLoadError = null
InitWasm ==
    /\ wasmModuleCache = None
    /\ wasmLoadPromise = None
    /\ wasmLoadError = None
    /\ loads = <<>>
    /\ callers = <<>>

\* vsCodeWatcher = null; nativeWatchers = new Map(); debounceTimers = new Map()
InitWatcher ==
    /\ vsCodeWatcher = FALSE
    /\ nativeWatchers = {}
    /\ debounceTimers = {}
    /\ timers = {}
    /\ now = 0
    /\ notified = <<>>
    /\ events = <<>>
    /\ disposed = FALSE

(***************************************************************************)
(* Inputs of the calls                                                     *)
(***************************************************************************)
WorkflowPath == JoinAbs(<<P_ws, P_wf>>)

SprintPath == JoinAbs(<<P_ws, P_sp>>)

NewStatuses == {S_required, S_skipped, S_path}

StoryStatuses == {S_done, S_backlog}

\* the ids of the calls: those of the documents and one that no document has
CallStoryIds == StoryIds \cup {I_9_9_none}

NoCall == [op |-> "none", path |-> <<>>, root |-> <<>>, id |-> <<>>, status |-> <<>>,
           ok |-> FALSE, before |-> <<>>, io |-> <<>>, fmt |-> "none", result |-> <<>>,
           errorBefore |-> NoError, fault |-> "none", raised |-> FALSE]

Disk(workflowDoc, sprintDoc) ==
    (<<P_ws, P_wf>> :> workflowDoc) @@ (<<P_ws, P_sp>> :> sprintDoc)
        @@ (<<P_etc, P_wf>> :> workflowDoc)

(***************************************************************************)
(* Text-level specification: the updates on every document of the family   *)
(***************************************************************************)
InitText ==
    /\ \/ \E d \in WorkflowDocs : files = Disk(d, DefaultSprintDoc)
       \/ \E d \in SprintDocs : files = Disk(DefaultWorkflowDoc, d)
    /\ workspaceRoot = JoinAbs(<<P_ws>>)
    /\ sprintWorkspaceRoot = JoinAbs(<<P_ws>>)
    /\ lastWorkflowParseError = NoError
    /\ lastSprintParseError = NoError
    /\ last = NoCall
    /\ InitExtension /\ InitWasm /\ InitWatcher
    /\ calls = 0

NextText ==
    \/ \E id \in ItemIds, s \in NewStatuses : updateWorkflowItemStatus(WorkflowPath, id, s)
    \/ \E id \in CallStoryIds, s \in StoryStatuses : updateStoryStatus(SprintPath, id, s)

SpecText == InitText /\ [][NextText]_vars


(***************************************************************************)
(* File-level specification: the four operations on any path, under any    *)
(* sequence of root settings                                               *)
(***************************************************************************)
RootValues == {Null, <<>>, JoinAbs(<<P_ws>>)}

IoPaths ==
    {WorkflowPath, SprintPath, JoinAbs(<<P_etc, P_wf>>), JoinAbs(<<P_ws, P_ln, P_wf>>),
     JoinAbs(<<P_ws, DotDot, P_etc, P_wf>>), JoinAbs(<<P_ws, P_a>>)}

Init ==
    /\ files = Disk(DefaultWorkflowDoc, DefaultSprintDoc)
    /\ workspaceRoot = Null
    /\ sprintWorkspaceRoot = Null
    /\ lastWorkflowParseError = NoError
    /\ lastSprintParseError = NoError
    /\ last = NoCall
    /\ InitExtension /\ InitWasm /\ InitWatcher
    /\ calls = 0

Next ==
    \/ \E root \in RootValues : setWorkspaceRoot(root)
    \/ \E root \in RootValues : setSprintWorkspaceRoot(root)
    \/ \E filePath \in IoPaths : parseWorkflowStatus(filePath)
    \/ \E filePath \in IoPaths : parseSprintStatus(filePath)
    \/ \E filePath \in IoPaths : updateWorkflowItemStatus(filePath, I_prd, S_skipped)
    \/ \E filePath \in IoPaths : updateStoryStatus(filePath, I_1_1_login, S_done)

Spec == Init /\ [][Next]_vars

(***************************************************************************)
(* Path specification: isInsideWorkspace on every candidate and root       *)
(***************************************************************************)
PathComps == {P_ws, P_WS, P_ws_o, P_etc, P_ln, P_wf, P_a, DotDot}

CompLists == UNION {[1..n -> PathComps] : n \in 0..MaxDepth}

\* absolute and relative candidates
CandidatePaths == {JoinAbs(c) : c \in CompLists} \cup {Tail(JoinAbs(c)) : c \in CompLists}

RootPaths ==
    {JoinAbs(<<P_ws>>), JoinAbs(<<>>), JoinAbs(<<P_ws>>) \o <<Sep>>, JoinAbs(<<P_etc>>),
     JoinAbs(<<P_ws, P_ln>>)}

InitPath ==
    /\ files = Disk(DefaultWorkflowDoc, DefaultSprintDoc)
    /\ workspaceRoot = Null
    /\ sprintWorkspaceRoot = Null
    /\ lastWorkflowParseError = NoError
    /\ lastSprintParseError = NoError
    /\ \E filePath \in CandidatePaths, root \in RootPaths :
          last = [NoCall EXCEPT !.op = "arguments", !.path = filePath, !.root = root]
    /\ InitExtension /\ InitWasm /\ InitWatcher
    /\ calls = 0

NextPath == callIsInsideWorkspace

SpecPath == InitPath /\ [][NextPath]_vars

(***************************************************************************)
(* Fault specification: isInsideWorkspace when an internal step fails      *)
(***************************************************************************)
\* the empty string, a relative path and a path through the symbolic link
TryPaths == IoPaths \cup {<<>>, P_ws_o \o <<Sep>> \o P_a, JoinAbs(<<P_ws, P_ln>>)}

TryRoots == RootPaths \cup {<<>>}

InitTry ==
    /\ files = Disk(DefaultWorkflowDoc, DefaultSprintDoc)
    /\ workspaceRoot = Null
    /\ sprintWorkspaceRoot = Null
    /\ lastWorkflowParseError = NoError
    /\ lastSprintParseError = NoError
    /\ \E filePath \in TryPaths, root \in TryRoots, fault \in Faults :
          last = [NoCall EXCEPT !.op = "arguments", !.path = filePath, !.root = root,
                                !.fault = fault]
    /\ InitExtension /\ InitWasm /\ InitWatcher
    /\ calls = 0

NextTry == callIsInsideWorkspace

SpecTry == InitTry /\ [][NextTry]_vars


(***************************************************************************)
(* Parse specification: the two parsers (and the workflow update) on every *)
(* document of the parse families                                          *)
(***************************************************************************)
\* an entry of a nested document: not_started; complete with an output_file;
\* an output_file and no status; complete without output_file; another status
\* with a note; no fields at all
ParsedNewItem(id, style) ==
    IF style = 1 THEN KeyLine(2, id) \o Field(4, K_status, S_not_started)
    ELSE IF style = 2
    THEN KeyLine(2, id) \o Field(4, K_status, S_complete) \o Field(4, K_output_file, S_path)
    ELSE IF style = 3 THEN KeyLine(2, id) \o Field(4, K_output_file, S_path)
    ELSE IF style = 4 THEN KeyLine(2, id) \o Field(4, K_status, S_complete)
    ELSE IF style = 5
    THEN KeyLine(2, id) \o Field(4, K_status, S_skipped) \o Field(4, K_note, S_draft)
    ELSE KeyLine(2, id)

\* an entry of a flat document: a status; a quoted path
ParsedFlatItem(id, style) ==
    IF style = 1 THEN Field(2, id, S_required) ELSE Field(2, id, Quoted(S_path))

\* an element of a legacy document: id and status; all fields, phase 1;
\* phase 0; a phase beyond 3; the phase prerequisite
ParsedOldItem(id, style) ==
    IF style = 1 THEN Sp(2) \o DashId \o id \o <<NL>> \o Field(4, K_status, S_required)
    ELSE IF style = 2
    THEN Sp(2) \o DashId \o id \o <<NL>> \o Field(4, K_phase, <<"1">>)
               \o Field(4, K_status, S_required) \o Field(4, K_agent, A_analyst)
               \o Field(4, K_command, id)
    ELSE IF style = 3
    THEN Sp(2) \o DashId \o id \o <<NL>> \o Field(4, K_phase, <<"0">>)
               \o Field(4, K_status, S_required) \o Field(4, K_agent, A_analyst)
               \o Field(4, K_command, id)
    ELSE IF style = 4
    THEN Sp(2) \o DashId \o id \o <<NL>> \o Field(4, K_phase, <<"7">>)
               \o Field(4, K_status, S_required)
    ELSE Sp(2) \o DashId \o id \o <<NL>> \o Field(4, K_phase, S_prerequisite)
               \o Field(4, K_status, S_required)

StylesOf(fmt) == IF fmt = "new" THEN 1..6 ELSE IF fmt = "flat" THEN 1..2 ELSE 1..5

ParsedItem(fmt, id, style) ==
    IF fmt = "new" THEN ParsedNewItem(id, style)
    ELSE IF fmt = "flat" THEN ParsedFlatItem(id, style)
    ELSE ParsedOldItem(id, style)

\* a known id of phase 1, a known id of phase 0, an id the tables do not have
ParsedIds == {I_prd, I_research, I_ux}

\* the sequences of at most maxLen distinct elements of S
SeqsOf(S, maxLen) ==
    UNION {{l \in [1..n -> S] : \A i, j \in 1..n : i # j => l[i] # l[j]} : n \in 1..maxLen}

RECURSIVE RenderParsed(_, _, _)
\* the entries of the ids in the given order, the styles rotating from `style`
RenderParsed(fmt, ids, style) ==
    IF ids = <<>> THEN <<>>
    ELSE ParsedItem(fmt, Head(ids), style)
         \o RenderParsed(fmt, Tail(ids), (style % Cardinality(StylesOf(fmt))) + 1)

HeaderOf(fmt) == IF fmt = "new" THEN K_workflows ELSE K_workflow_status

ItemDocs ==
    {Field(0, K_project, S_draft) \o KeyLine(0, HeaderOf(fmt)) \o RenderParsed(fmt, ids, style) :
        fmt \in Formats, ids \in SeqsOf(ParsedIds, MaxEntries), style \in 1..6}

Kinds == {"absent", "null", "scalar", "mapping", "sequence"}

\* a top-level key with a value of the kind
KeyOfKind(key, kind, id) ==
    IF kind = "absent" THEN <<>>
    ELSE IF kind = "null" THEN KeyLine(0, key)
    ELSE IF kind = "scalar" THEN Field(0, key, S_draft)
    ELSE IF kind = "sequence" THEN KeyLine(0, key) \o ParsedOldItem(id, 1)
    ELSE IF key = K_workflows THEN KeyLine(0, key) \o ParsedNewItem(id, 1)
    ELSE KeyLine(0, key) \o ParsedFlatItem(id, 1)

\* documents with the keys workflows and workflow_status of every kind, in
\* both orders
KindDocs ==
    {IF first THEN KeyOfKind(K_workflows, k1, I_prd) \o KeyOfKind(K_workflow_status, k2, I_ux)
              ELSE KeyOfKind(K_workflow_status, k2, I_ux) \o KeyOfKind(K_workflows, k1, I_prd) :
        k1 \in Kinds, k2 \in Kinds, first \in BOOLEAN}

\* a double-quoted scalar that is never closed
MalformedDoc ==
    KeyLine(0, K_workflows) \o KeyLine(2, I_prd)
        \o Sp(4) \o K_status \o <<":", " ", DQ>> \o S_required \o <<NL>>

CommentDoc == <<"#", " ", "c", NL>>

ParsedWorkflowDocs == (ItemDocs \cup KindDocs \cup {MalformedDoc, CommentDoc}) \ {<<>>}

SprintKeys ==
    {I_epic_1, I_epic_2, I_epic_10, I_1_1_login, I_1_2_signup, I_9_9_none,
     I_1_retrospective}

RECURSIVE RenderKeys(_)
RenderKeys(keys) ==
    IF keys = <<>> THEN <<>> ELSE Field(2, Head(keys), S_backlog) \o RenderKeys(Tail(keys))

\* two orders of the keys: epics before and after their stories, the stories
\* in both orders
KeyOrders ==
    {<<I_epic_10, I_epic_1, I_1_1_login, I_1_2_signup, I_9_9_none, I_1_retrospective,
       I_epic_2>>,
     <<I_epic_2, I_1_2_signup, I_1_retrospective, I_epic_10, I_9_9_none, I_1_1_login,
       I_epic_1>>}

\* the development_status mappings of at most MaxKeys of the keys, and the
\* documents whose development_status is a scalar, a sequence, null or absent
ParsedSprintDocs ==
    {LET Chosen(k) == k \in keys
     IN  Field(0, K_project, S_draft) \o KeyLine(0, K_development_status)
             \o RenderKeys(SelectSeq(order, Chosen)) :
        keys \in {K \in SUBSET SprintKeys : K # {} /\ Cardinality(K) <= MaxKeys},
        order \in KeyOrders}
    \cup {Field(0, K_project, S_draft) \o Field(0, K_development_status, S_backlog),
          Field(0, K_project, S_draft) \o KeyLine(0, K_development_status)
              \o Sp(2) \o DashId \o I_epic_1 \o <<NL>>,
          Field(0, K_project, S_draft) \o KeyLine(0, K_development_status),
          Field(0, K_project, S_draft),
          CommentDoc}

\* the workflow file, the sprint file, a path without a file, a file outside
\* the workspace
ParsePaths == {WorkflowPath, SprintPath, JoinAbs(<<P_ws, P_a>>), JoinAbs(<<P_etc, P_wf>>)}

InitParse ==
    /\ \/ \E d \in ParsedWorkflowDocs : files = Disk(d, DefaultSprintDoc)
       \/ \E d \in ParsedSprintDocs : files = Disk(DefaultWorkflowDoc, d)
    /\ workspaceRoot = JoinAbs(<<P_ws>>)
    /\ sprintWorkspaceRoot = JoinAbs(<<P_ws>>)
    /\ lastWorkflowParseError = NoError
    /\ lastSprintParseError = NoError
    /\ last = NoCall
    /\ InitExtension /\ InitWasm /\ InitWatcher
    /\ calls = 0

NextParse ==
    \/ \E filePath \in ParsePaths : parseWorkflowStatus(filePath)
    \/ \E filePath \in ParsePaths : parseSprintStatus(filePath)
    \/ updateWorkflowItemStatus(WorkflowPath, I_prd, S_skipped)

SpecParse == InitParse /\ [][NextParse]_vars


(***************************************************************************)
(* Reload specification: the loaders of extension.ts under file changes    *)
(***************************************************************************)
\* loadWorkflowData with workflowStatusPath set: the parse, then the
\* notification unless the message is the one kept from the last notification
loadWorkflowData ==
    \E r \in {Parse(workspaceRoot, WorkflowPath, ParsedWorkflow)} :
        /\ calls < MaxReloads
        /\ calls' = calls + 1
        /\ lastWorkflowParseError' = r.doc.error
        /\ last' = [Call("loadWorkflowData", WorkflowPath, <<>>, <<>>, r.doc.ok, r.io)
                        EXCEPT !.errorBefore = lastWorkflowErrorMessage]
        /\ IF ~r.doc.ok /\ r.doc.error # NoError /\ r.doc.error # lastWorkflowErrorMessage
           THEN /\ lastWorkflowErrorMessage' = r.doc.error
                /\ shown' = Append(shown, [view |-> "workflow", message |-> r.doc.error])
           ELSE /\ lastWorkflowErrorMessage' =
                      (IF r.doc.ok THEN NoError ELSE lastWorkflowErrorMessage)
                /\ shown' = shown
        /\ UNCHANGED <<files, workspaceRoot, sprintWorkspaceRoot, lastSprintParseError,
                       lastSprintErrorMessage, wasmVars, watcherVars>>

\* loadSprintData with sprintStatusPath set
loadSprintData ==
    \E r \in {Parse(sprintWorkspaceRoot, SprintPath, ParsedSprint)} :
        /\ calls < MaxReloads
        /\ calls' = calls + 1
        /\ lastSprintParseError' = r.doc.error
        /\ last' = [Call("loadSprintData", SprintPath, <<>>, <<>>, r.doc.ok, r.io)
                        EXCEPT !.errorBefore = lastSprintErrorMessage]
        /\ IF ~r.doc.ok /\ r.doc.error # NoError /\ r.doc.error # lastSprintErrorMessage
           THEN /\ lastSprintErrorMessage' = r.doc.error
                /\ shown' = Append(shown, [view |-> "sprint", message |-> r.doc.error])
           ELSE /\ lastSprintErrorMessage' =
                      (IF r.doc.ok THEN NoError ELSE lastSprintErrorMessage)
                /\ shown' = shown
        /\ UNCHANGED <<files, workspaceRoot, sprintWorkspaceRoot, lastWorkflowParseError,
                       lastWorkflowErrorMessage, wasmVars, watcherVars>>

\* the texts a status file takes between two reloads: a document that parses,
\* one with a syntax error, an empty one
ReloadDocs(good) == {good, MalformedDoc, CommentDoc}

\* the user saves another text to one of the two files
fileChanged ==
    /\ \/ \E d \in ReloadDocs(DefaultWorkflowDoc) :
             files' = [files EXCEPT ![NodeOf(WorkflowPath)] = d]
       \/ \E d \in ReloadDocs(DefaultSprintDoc) :
             files' = [files EXCEPT ![NodeOf(SprintPath)] = d]
    /\ files' # files
    /\ UNCHANGED <<workspaceRoot, sprintWorkspaceRoot, lastWorkflowParseError,
                   lastSprintParseError, last, calls, extensionVars, wasmVars,
                   watcherVars>>

InitReload ==
    /\ files = Disk(DefaultWorkflowDoc, DefaultSprintDoc)
    /\ workspaceRoot = JoinAbs(<<P_ws>>)
    /\ sprintWorkspaceRoot = JoinAbs(<<P_ws>>)
    /\ lastWorkflowParseError = NoError
    /\ lastSprintParseError = NoError
    /\ last = NoCall
    /\ InitExtension /\ InitWasm /\ InitWatcher
    /\ calls = 0

NextReload == loadWorkflowData \/ loadSprintData \/ fileChanged

SpecReload == InitReload /\ [][NextReload]_vars

(***************************************************************************)
(* Caller specification: several callers, each parsing and then reading    *)
(* the parse error of the module                                           *)
(***************************************************************************)
\* caller c calls parseWorkflowStatus or parseSprintStatus on a path
callerParses(c) ==
    /\ callers[c].pc = "idle"
    /\ \E filePath \in ParsePaths :
          \/ \E r \in {Parse(workspaceRoot, filePath, ParsedWorkflow)} :
                /\ lastWorkflowParseError' = r.doc.error
                /\ callers' = [callers EXCEPT ![c] =
                                  [pc |-> "parsed", op |-> "parseWorkflowStatus",
                                   path |-> filePath, own |-> r.doc.error,
                                   seen |-> NoError]]
                /\ UNCHANGED lastSprintParseError
          \/ \E r \in {Parse(sprintWorkspaceRoot, filePath, ParsedSprint)} :
                /\ lastSprintParseError' = r.doc.error
                /\ callers' = [callers EXCEPT ![c] =
                                  [pc |-> "parsed", op |-> "parseSprintStatus",
                                   path |-> filePath, own |-> r.doc.error,
                                   seen |-> NoError]]
                /\ UNCHANGED lastWorkflowParseError
    /\ UNCHANGED <<files, workspaceRoot, sprintWorkspaceRoot, last, calls, extensionVars,
                   wasmModuleCache, wasmLoadPromise, wasmLoadError, loads, watcherVars>>

\* caller c calls getWorkflowParseError or getSprintParseError after its parse
callerReads(c) ==
    /\ callers[c].pc = "parsed"
    /\ callers' = [callers EXCEPT ![c].pc = "done",
                                  ![c].seen = IF callers[c].op = "parseWorkflowStatus"
                                              THEN lastWorkflowParseError
                                              ELSE lastSprintParseError]
    /\ UNCHANGED <<engineVars, extensionVars, wasmModuleCache, wasmLoadPromise,
                   wasmLoadError, loads, watcherVars>>

InitCallers ==
    /\ \E d \in ReloadDocs(DefaultWorkflowDoc) : files = Disk(d, DefaultSprintDoc)
    /\ workspaceRoot = JoinAbs(<<P_ws>>)
    /\ sprintWorkspaceRoot = JoinAbs(<<P_ws>>)
    /\ lastWorkflowParseError = NoError
    /\ lastSprintParseError = NoError
    /\ last = NoCall
    /\ calls = 0
    /\ InitExtension /\ InitWatcher
    /\ wasmModuleCache = None /\ wasmLoadPromise = None /\ wasmLoadError = None
    /\ loads = <<>>
    /\ callers = [c \in 1..MaxCallers |->
                     [pc |-> "idle", op |-> "none", path |-> <<>>, own |-> NoError,
                      seen |-> NoError]]

NextCallers == \E c \in 1..MaxCallers : callerParses(c) \/ callerReads(c)

SpecCallers == InitCallers /\ [][NextCallers]_vars

(***************************************************************************)
(* The WASM loader (wasmLoader.ts) and the WASM-backed updates             *)
(* (workflowParserWasm.ts, sprintParserWasm.ts)                            *)
(***************************************************************************)
\* the wrapper that the n-th execution of loadWasmModule returns
Module(n) == [kind |-> "module", load |-> n]

\* the Error with which the n-th execution of loadWasmModule rejects
LoadError(n) == [kind |-> "error", load |-> n]

\* the promise loadWasmModule().then(...).catch(...) of the n-th execution
Promise(n) == [kind |-> "promise", load |-> n]

\* getWasmModule with a load started whenever no module is cached
GetWasmModule_NoSharing ==
    IF wasmModuleCache # None
    THEN [pc |-> "ready", value |-> wasmModuleCache, on |-> 0,
          promise |-> wasmLoadPromise, loads |-> loads]
    ELSE [pc |-> "waiting", value |-> None, on |-> Len(loads) + 1,
          promise |-> Promise(Len(loads) + 1), loads |-> Append(loads, "pending")]

\* getWasmModule up to its return: the promise the caller awaits (settled
\* with the cached module or error, or the promise of load `on`), and the
\* values of wasmLoadPromise and of the loads after the call
GetWasmModule ==
    IF wasmModuleCache # None
    THEN [pc |-> "ready", value |-> wasmModuleCache, on |-> 0,
          promise |-> wasmLoadPromise, loads |-> loads]
    ELSE IF wasmLoadError # None
    THEN [pc |-> "ready", value |-> wasmLoadError, on |-> 0,
          promise |-> wasmLoadPromise, loads |-> loads]
    ELSE IF wasmLoadPromise # None
    THEN [pc |-> "waiting", value |-> None, on |-> wasmLoadPromise.load,
          promise |-> wasmLoadPromise, loads |-> loads]
    ELSE [pc |-> "waiting", value |-> None, on |-> Len(loads) + 1,
          promise |-> Promise(Len(loads) + 1), loads |-> Append(loads, "pending")]

\* a caller that has called nothing yet
Idle == [pc |-> "idle", op |-> "none", path |-> <<>>, id |-> <<>>, status |-> <<>>,
         stage |-> "none", on |-> 0, value |-> None, content |-> <<>>, ok |-> FALSE,
         cause |-> "none", before |-> <<>>, after |-> <<>>]

\* the value with which the promise that caller c awaits is settled
Awaited(c) ==
    IF callers[c].pc = "ready" THEN callers[c].value
    ELSE IF loads[callers[c].on] = "resolved" THEN Module(callers[c].on)
    ELSE LoadError(callers[c].on)

\* update_workflow_status_wasm / update_story_status_wasm: the new content, or
\* an UpdateError raised at the boundary when the identifier is not found
WasmUpdate(op, content, id, newStatus) ==
    LET u == IF op \in {"updateWorkflowItemStatus", "updateWorkflowItemStatusAsync"}
             THEN UpdatedWorkflow(content, id, newStatus)
             ELSE UpdatedStory(content, id, newStatus)
    IN  [raised |-> ~u.ok, text |-> u.text]

\* an update that empties the file before the WASM update is called
Finish_WritesFirst(caller, cause, current, r) ==
    IF cause # "none" \/ r.raised
    THEN [caller EXCEPT !.pc = "done", !.ok = FALSE, !.before = current, !.after = <<>>,
                        !.cause = IF cause # "none" THEN cause
                                  ELSE IF r.raised THEN "raised" ELSE "none"]
    ELSE [caller EXCEPT !.pc = "done", !.ok = TRUE, !.before = current,
                        !.after = r.text]

\* the end of an update: false without a write when the content was not
\* computed, else fs.writeFileSync of the content and true; the caller with
\* the content of the file before and after the step
Finish(caller, cause, current, r) ==
    IF cause # "none" \/ r.raised
    THEN [caller EXCEPT !.pc = "done", !.ok = FALSE, !.before = current, !.after = current,
                        !.cause = IF cause # "none" THEN cause
                                  ELSE IF r.raised THEN "raised" ELSE "none"]
    ELSE [caller EXCEPT !.pc = "done", !.ok = TRUE, !.before = current,
                        !.after = r.text]

\* isInsideWorkspaceSync: the WASM validation when the module is loaded, else
\* the comparison of the resolved, lower-cased paths
isInsideWorkspaceSync(filePath, wsRoot) ==
    IF wasmModuleCache # None THEN isInsideWorkspace(filePath, wsRoot)
    ELSE Contained(ToLowerCase(PathResolve(filePath)), ToLowerCase(PathResolve(wsRoot)))

\* caller c calls getWasmModule
callGetWasmModule(c) ==
    /\ callers[c].pc = "idle"
    /\ \E g \in {GetWasmModule} :
          /\ callers' = [callers EXCEPT ![c] =
                            [Idle EXCEPT !.op = "getWasmModule", !.pc = g.pc,
                                         !.on = g.on, !.value = g.value]]
          /\ wasmLoadPromise' = g.promise
          /\ loads' = g.loads
    /\ UNCHANGED <<engineVars, extensionVars, wasmModuleCache, wasmLoadError, watcherVars>>

\* caller c calls resetWasmCache
resetWasmCache(c) ==
    /\ callers[c].pc = "idle"
    /\ callers' = [callers EXCEPT ![c] = [Idle EXCEPT !.op = "resetWasmCache",
                                                      !.pc = "done"]]
    /\ wasmModuleCache' = None
    /\ wasmLoadPromise' = None
    /\ wasmLoadError' = None
    /\ UNCHANGED <<engineVars, extensionVars, loads, watcherVars>>

\* the n-th execution of loadWasmModule ends: the handlers of getWasmModule
\* (lines 213-223, and those of the callers that share the promise, 204-209)
\* run before any caller continues
loadSettles(n) ==
    /\ loads[n] = "pending"
    /\ \/ /\ loads' = [loads EXCEPT ![n] = "resolved"]
          /\ wasmModuleCache' = Module(n)
          /\ wasmLoadError' = wasmLoadError
       \/ /\ loads' = [loads EXCEPT ![n] = "rejected"]
          /\ wasmLoadError' = LoadError(n)
          /\ wasmModuleCache' = wasmModuleCache
    /\ wasmLoadPromise' = None
    /\ UNCHANGED <<engineVars, extensionVars, callers, watcherVars>>

\* updateWorkflowItemStatus / updateStoryStatus of the WASM parsers
callUpdateSync(c, op, filePath, id, newStatus) ==
    /\ callers[c].pc = "idle"
    /\ LET caller == [Idle EXCEPT !.op = op, !.path = filePath, !.id = id,
                                  !.status = newStatus]
           node == NodeOf(filePath)
       IN  IF \/ Truthy(workspaceRoot) /\ ~isInsideWorkspaceSync(filePath, workspaceRoot)
              \/ ~Readable(filePath)
           THEN /\ callers' = [callers EXCEPT ![c] = [caller EXCEPT !.pc = "done"]]
                /\ files' = files
           ELSE \E f \in {Finish([caller EXCEPT !.content = files[node]],
                                 IF wasmModuleCache = None THEN "not loaded" ELSE "none",
                                 files[node],
                                 WasmUpdate(op, files[node], id, newStatus))} :
                   /\ callers' = [callers EXCEPT ![c] = f]
                   /\ files' = [files EXCEPT ![node] = f.after]
    /\ UNCHANGED <<workspaceRoot, sprintWorkspaceRoot, lastWorkflowParseError,
                   lastSprintParseError, last, calls, extensionVars, wasmModuleCache,
                   wasmLoadPromise, wasmLoadError, loads, watcherVars>>

\* the part of an asynchronous update from fs.existsSync to the second
\* `await getWasmModule()`
ReadThenGet(c, caller) ==
    IF ~Readable(caller.path)
    THEN /\ callers' = [callers EXCEPT ![c] = [caller EXCEPT !.pc = "done"]]
         /\ UNCHANGED <<wasmLoadPromise, loads>>
    ELSE \E g \in {GetWasmModule} :
            /\ callers' = [callers EXCEPT ![c] =
                              [caller EXCEPT !.stage = "update", !.pc = g.pc,
                                             !.on = g.on, !.value = g.value,
                                             !.content = files[NodeOf(caller.path)]]]
            /\ wasmLoadPromise' = g.promise
            /\ loads' = g.loads

\* updateWorkflowItemStatusAsync / updateStoryStatusAsync up to the first await
callUpdateAsync(c, op, filePath, id, newStatus) ==
    /\ callers[c].pc = "idle"
    /\ LET caller == [Idle EXCEPT !.op = op, !.path = filePath, !.id = id,
                                  !.status = newStatus]
       IN  IF Truthy(workspaceRoot)
           THEN \E g \in {GetWasmModule} :
                   /\ callers' = [callers EXCEPT ![c] =
                                     [caller EXCEPT !.stage = "validate", !.pc = g.pc,
                                                    !.on = g.on, !.value = g.value]]
                   /\ wasmLoadPromise' = g.promise
                   /\ loads' = g.loads
           ELSE ReadThenGet(c, caller)
    /\ UNCHANGED <<engineVars, extensionVars, wasmModuleCache, wasmLoadError, watcherVars>>

\* caller c continues after its await
resume(c) ==
    /\ \/ callers[c].pc = "ready"
       \/ callers[c].pc = "waiting" /\ loads[callers[c].on] # "pending"
    /\ LET caller == callers[c]
           v == Awaited(c)
           node == NodeOf(caller.path)
       IN  IF caller.op = "getWasmModule"
           THEN /\ callers' = [callers EXCEPT ![c].pc = "done", ![c].value = v]
                /\ UNCHANGED <<files, wasmLoadPromise, loads>>
           ELSE IF caller.stage = "validate"
           THEN /\ files' = files
                /\ IF v.kind = "error"
                   THEN /\ callers' = [callers EXCEPT ![c] =
                                          Finish([caller EXCEPT !.value = v], "load failed",
                                                 files[node],
                                                 [raised |-> FALSE, text |-> files[node]])]
                        /\ UNCHANGED <<wasmLoadPromise, loads>>
                   ELSE IF ~isInsideWorkspace(caller.path, workspaceRoot)
                   THEN /\ callers' = [callers EXCEPT ![c].pc = "done", ![c].value = v]
                        /\ UNCHANGED <<wasmLoadPromise, loads>>
                   ELSE ReadThenGet(c, [caller EXCEPT !.value = v])
           ELSE \E f \in {Finish([caller EXCEPT !.value = v],
                                 IF v.kind = "error" THEN "load failed" ELSE "none",
                                 files[node],
                                 WasmUpdate(caller.op, caller.content, caller.id,
                                            caller.status))} :
                   /\ callers' = [callers EXCEPT ![c] = f]
                   /\ files' = [files EXCEPT ![node] = f.after]
                   /\ UNCHANGED <<wasmLoadPromise, loads>>
    /\ UNCHANGED <<workspaceRoot, sprintWorkspaceRoot, lastWorkflowParseError,
                   lastSprintParseError, last, calls, extensionVars, wasmModuleCache,
                   wasmLoadError, watcherVars>>

\* the calls of the updates: an item the workflow file has and one it has
\* not, a story the sprint file has and one it has not
WasmUpdateCalls ==
    {[path |-> WorkflowPath, id |-> id, status |-> S_skipped, kind |-> "Workflow"] :
        id \in {I_prd, I_ux}}
    \cup {[path |-> SprintPath, id |-> id, status |-> S_done, kind |-> "Story"] :
             id \in {I_1_1_login, I_9_9_none}}

InitWasmSpec ==
    /\ files = Disk(DefaultWorkflowDoc, DefaultSprintDoc)
    /\ workspaceRoot \in {Null, JoinAbs(<<P_ws>>)}
    /\ sprintWorkspaceRoot = workspaceRoot
    /\ lastWorkflowParseError = NoError
    /\ lastSprintParseError = NoError
    /\ last = NoCall
    /\ calls = 0
    /\ InitExtension /\ InitWatcher
    /\ wasmModuleCache = None /\ wasmLoadPromise = None /\ wasmLoadError = None
    /\ loads = <<>>
    /\ callers = [c \in 1..MaxTasks |-> Idle]

NextWasm ==
    \/ \E c \in 1..MaxTasks : callGetWasmModule(c)
    \/ \E c \in 1..MaxTasks : resetWasmCache(c)
    \/ \E n \in 1..Len(loads) : loadSettles(n)
    \/ \E c \in 1..MaxTasks, u \in WasmUpdateCalls :
          callUpdateSync(c, IF u.kind = "Workflow" THEN "updateWorkflowItemStatus"
                            ELSE "updateStoryStatus", u.path, u.id, u.status)
    \/ \E c \in 1..MaxTasks, u \in WasmUpdateCalls :
          callUpdateAsync(c, IF u.kind = "Workflow" THEN "updateWorkflowItemStatusAsync"
                             ELSE "updateStoryStatusAsync", u.path, u.id, u.status)
    \/ \E c \in 1..MaxTasks : resume(c)

SpecWasm == InitWasmSpec /\ [][NextWasm]_vars

(***************************************************************************)
(* CliqueFileWatcher (types.ts): debounced change notifications             *)
(*                                                                         *)
(* Time is counted in units of 100 ms.  A timeout runs at its due time: the *)
(* clock does not pass a timeout that is due.  The set of files of the      *)
(* disk is fixed, so a watched file exists for as long as it is watched.    *)
(***************************************************************************)
\* private readonly debounceMs = 300
DebounceMs == 3

\* setTimeout(..., 100) after a 'rename' event
RenameRewatchMs == 1

\* setTimeout(..., 1000) after a watcher error
ErrorRewatchMs == 10

\* the paths the extension watches: the workflow status file, the sprint
\* status file, and a selected sprint file that does not exist
WatchPaths == {WorkflowPath, SprintPath, JoinAbs(<<P_ws, P_a>>)}

\* the type the extension passes with a path
WatchType(filePath) == IF filePath = WorkflowPath THEN "workflow" ELSE "sprint"

\* the files the glob of the workspace watcher matches
WatchedUris == {WorkflowPath, SprintPath}

\* the identity of the next timeout
NextTimer == Len(events) + 1

\* disposeNativeWatcher(filePath): the watchers that stay open
disposeNativeWatcher(watchers, filePath) == {w \in watchers : w.path # filePath}

\* watchFile(filePath, type): the open watchers after the call; throws says
\* whether fs.watch throws
WatchFile(watchers, filePath, type, throws) ==
    LET closed == disposeNativeWatcher(watchers, filePath)
    IN  IF ~ExistsSync(filePath) THEN closed
        ELSE IF throws THEN closed
        ELSE closed \cup {[path |-> filePath, type |-> type]}

\* debouncedNotify without the clearTimeout of the existing timer
ClearedTimers_KeepsExisting(filePath) == timers

\* const existing = debounceTimers.get(filePath); if (existing) clearTimeout(existing)
ClearedTimers(filePath) ==
    {t \in timers : ~(t.kind = "debounce"
                      /\ [path |-> filePath, id |-> t.id] \in debounceTimers)}

\* debouncedNotify(filePath, type): the pending timeouts and the map after it
DebouncedNotify(filePath, type) ==
    [timers |-> ClearedTimers(filePath)
                   \cup {[kind |-> "debounce", path |-> filePath, type |-> type,
                          due |-> now + DebounceMs, id |-> NextTimer]},
     debounceTimers |-> {d \in debounceTimers : d.path # filePath}
                           \cup {[path |-> filePath, id |-> NextTimer]}]

\* an event of the file system as the watcher receives it
FsEvent(filePath, source, eventType) ==
    [path |-> filePath, time |-> now, source |-> source, eventType |-> eventType]

\* setup()
setup ==
    /\ ~disposed
    /\ ~vsCodeWatcher
    /\ vsCodeWatcher' = TRUE
    /\ UNCHANGED <<nativeWatchers, debounceTimers, timers, now, notified, events, disposed>>
    /\ UNCHANGED <<engineVars, extensionVars, wasmVars>>

\* the extension calls watchFile(filePath, type)
watchFile(filePath, type) ==
    /\ ~disposed
    /\ \E throws \in BOOLEAN :
          nativeWatchers' = WatchFile(nativeWatchers, filePath, type, throws)
    /\ UNCHANGED <<vsCodeWatcher, debounceTimers, timers, now, notified, events, disposed>>
    /\ UNCHANGED <<engineVars, extensionVars, wasmVars>>

\* onDidChange / onDidCreate of the workspace watcher: handleChange(uri)
handleChange(fsPath) ==
    /\ vsCodeWatcher
    /\ Len(events) < MaxEvents
    /\ \E r \in {DebouncedNotify(fsPath, IF Includes(fsPath, P_wf) THEN "workflow"
                                         ELSE "sprint")} :
          /\ timers' = r.timers
          /\ debounceTimers' = r.debounceTimers
    /\ events' = Append(events, FsEvent(fsPath, "vscode", "change"))
    /\ UNCHANGED <<vsCodeWatcher, nativeWatchers, now, notified, disposed>>
    /\ UNCHANGED <<engineVars, extensionVars, wasmVars>>

\* onDidDelete of the workspace watcher: handleDelete(uri)
handleDelete(fsPath) ==
    /\ vsCodeWatcher
    /\ nativeWatchers' = disposeNativeWatcher(nativeWatchers, fsPath)
    /\ UNCHANGED <<vsCodeWatcher, debounceTimers, timers, now, notified, events, disposed>>
    /\ UNCHANGED <<engineVars, extensionVars, wasmVars>>

\* the listener of fs.watch runs for an open native watcher
nativeEvent(w, eventType) ==
    /\ w \in nativeWatchers
    /\ Len(events) < MaxEvents
    /\ \E r \in {DebouncedNotify(w.path, w.type)} :
          /\ timers' = r.timers
                \cup (IF eventType = "rename"
                      THEN {[kind |-> "rename", path |-> w.path, type |-> w.type,
                             due |-> now + RenameRewatchMs, id |-> NextTimer]}
                      ELSE {})
          /\ debounceTimers' = r.debounceTimers
    /\ events' = Append(events, FsEvent(w.path, "native", eventType))
    /\ UNCHANGED <<vsCodeWatcher, nativeWatchers, now, notified, disposed>>
    /\ UNCHANGED <<engineVars, extensionVars, wasmVars>>

\* watcher.on('error', ...) runs for an open native watcher
nativeError(w) ==
    /\ w \in nativeWatchers
    /\ Len(events) < MaxEvents
    /\ timers' = timers \cup {[kind |-> "error", path |-> w.path, type |-> w.type,
                               due |-> now + ErrorRewatchMs, id |-> NextTimer]}
    /\ events' = Append(events, FsEvent(w.path, "native", "error"))
    /\ UNCHANGED <<vsCodeWatcher, nativeWatchers, debounceTimers, now, notified, disposed>>
    /\ UNCHANGED <<engineVars, extensionVars, wasmVars>>

\* a pending timeout runs: the debounce callback, or the re-watch after a
\* rename or an error
timeout(t) ==
    /\ t \in timers
    /\ t.due <= now
    /\ timers' = timers \ {t}
    /\ IF t.kind = "debounce"
       THEN /\ debounceTimers' = {d \in debounceTimers : d.path # t.path}
            /\ notified' = Append(notified, [type |-> t.type, path |-> t.path,
                                             time |-> now, after |-> Len(events),
                                             disposed |-> disposed])
            /\ UNCHANGED nativeWatchers
       ELSE /\ IF ExistsSync(t.path)
               THEN \E throws \in BOOLEAN :
                       nativeWatchers' = WatchFile(nativeWatchers, t.path, t.type, throws)
               ELSE UNCHANGED nativeWatchers
            /\ UNCHANGED <<debounceTimers, notified>>
    /\ UNCHANGED <<vsCodeWatcher, now, events, disposed>>
    /\ UNCHANGED <<engineVars, extensionVars, wasmVars>>

\* 100 ms pass
tick ==
    /\ now < MaxTime
    /\ \A t \in timers : t.due > now
    /\ now' = now + 1
    /\ UNCHANGED <<vsCodeWatcher, nativeWatchers, debounceTimers, timers, notified, events,
                   disposed>>
    /\ UNCHANGED <<engineVars, extensionVars, wasmVars>>

\* dispose()
dispose ==
    /\ ~disposed
    /\ vsCodeWatcher' = FALSE
    /\ nativeWatchers' = {}
    /\ timers' = {t \in timers : ~(t.kind = "debounce"
                                   /\ [path |-> t.path, id |-> t.id] \in debounceTimers)}
    /\ debounceTimers' = {}
    /\ disposed' = TRUE
    /\ UNCHANGED <<now, notified, events>>
    /\ UNCHANGED <<engineVars, extensionVars, wasmVars>>

InitWatcherSpec ==
    /\ files = Disk(DefaultWorkflowDoc, DefaultSprintDoc)
    /\ workspaceRoot = JoinAbs(<<P_ws>>)
    /\ sprintWorkspaceRoot = JoinAbs(<<P_ws>>)
    /\ lastWorkflowParseError = NoError
    /\ lastSprintParseError = NoError
    /\ last = NoCall
    /\ calls = 0
    /\ InitExtension /\ InitWasm /\ InitWatcher

NextWatcher ==
    \/ setup
    \/ \E p \in WatchPaths : watchFile(p, WatchType(p))
    \/ \E p \in WatchedUris : handleChange(p)
    \/ \E p \in WatchedUris : handleDelete(p)
    \/ \E w \in nativeWatchers, eventType \in {"change", "rename"} : nativeEvent(w, eventType)
    \/ \E w \in nativeWatchers : nativeError(w)
    \/ \E t \in timers : timeout(t)
    \/ tick
    \/ dispose

SpecWatcher == InitWatcherSpec /\ [][NextWatcher]_vars

(***************************************************************************)
(* Vocabulary of the properties                                            *)
(***************************************************************************)
WorkflowCall == last.op = "updateWorkflowItemStatus" /\ NodeOf(last.path) \in DOMAIN files

StoryCall == last.op = "updateStoryStatus" /\ NodeOf(last.path) \in DOMAIN files

\* the content of the file of the last call, before and after the call
TextBefore == last.before[NodeOf(last.path)]

TextAfter == files[NodeOf(last.path)]

FormatBefore == DetectFormat(TextBefore)

\* the number of the line that starts at position i (0 for i = 0)
LineIndex(s, i) == Cardinality({j \in LineStarts(s) : j <= i})

\* b and a have the same lines, except possibly the line of b that starts at t
OnlyLineChanged(b, a, t) ==
    /\ Len(Lines(b)) = Len(Lines(a))
    /\ \A n \in 1..Len(Lines(b)) : n # LineIndex(b, t) => Lines(b)[n] = Lines(a)[n]

EndsWith(str, suffix) ==
    /\ Len(suffix) <= Len(str)
    /\ SubSeq(str, Len(str) - Len(suffix) + 1, Len(str)) = suffix

\* text b with the token that starts at position v replaced by tok
WithToken(b, v, tok) == SubSeq(b, 1, v - 1) \o tok \o SubSeq(b, SkipNonWs(b, v), Len(b))

IsPrefix(p, q) == Len(p) <= Len(q) /\ SubSeq(q, 1, Len(p)) = p

HasSlashOrColon(str) == \E n \in 1..Len(str) : str[n] \in {"/", ":"}

\* C1: after a successful updateWorkflowItemStatus on an item of the
\* document, every line other than the line that holds the item's status
\* value is the same as before the call.
C1_MutationLocality ==
    (WorkflowCall /\ last.ok /\ ItemLine(TextBefore, FormatBefore, last.id) # 0)
        => OnlyLineChanged(TextBefore, TextAfter,
                           StatusLine(TextBefore, FormatBefore, last.id))

\* C2: a successful updateWorkflowItemStatus keeps, on the item's status
\* line, everything before the value token (indentation, key) and everything
\* after it (a trailing comment).
C2_OnlyValueToken ==
    (WorkflowCall /\ last.ok /\ StatusLine(TextBefore, FormatBefore, last.id) # 0)
        => LET b == TextBefore
               t == StatusLine(b, FormatBefore, last.id)
               v == StatusValueStart(b, FormatBefore, last.id)
               pre == SubSeq(b, t, v - 1)
               suf == SubSeq(b, SkipNonWs(b, v), LineEnd(b, t) - 1)
           IN  /\ Len(Lines(TextAfter)) = Len(Lines(b))
               /\ LET la == Lines(TextAfter)[LineIndex(b, t)]
                  IN  /\ StartsWith(la, pre)
                      /\ EndsWith(la, suf)
                      /\ Len(la) >= Len(pre) + Len(suf)

\* C3: an update for an id that the document does not hold returns false
\* and leaves every file as it was.
C3_UnknownIdNoWrite ==
    (\/ WorkflowCall /\ ItemLine(TextBefore, FormatBefore, last.id) = 0
     \/ StoryCall /\ StoryLine(TextBefore, last.id) = 0)
        => (~last.ok /\ files = last.before)

\* C6: in a legacy document a successful update changes only the status
\* line of the element whose id equals the given id; when that element has
\* no status field (or does not exist) the call fails.
C6_LegacyExactBlock ==
    (WorkflowCall /\ last.ok /\ FormatBefore = "old")
        => /\ StatusLine(TextBefore, "old", last.id) # 0
           /\ OnlyLineChanged(TextBefore, TextAfter, StatusLine(TextBefore, "old", last.id))

C8_NoOpUpdate ==
    (/\ WorkflowCall /\ last.ok
     /\ StatusLine(TextBefore, FormatBefore, last.id) # 0
     /\ last.status = ParsedStatus(TextBefore, FormatBefore, last.id))
        => \E tok \in {last.status, Quoted(last.status), <<SQ>> \o last.status \o <<SQ>>} :
              TextAfter = WithToken(TextBefore,
                                    StatusValueStart(TextBefore, FormatBefore, last.id), tok)

\* C9: after a successful update of a flat document the item's value is
\* the new status, in double quotes exactly when it contains `/` or `:`,
\* the document is still a flat document and the item reads back as the
\* new status.
C9_FlatQuoting ==
    (WorkflowCall /\ last.ok /\ FormatBefore = "flat")
        => LET a == TextAfter
               v == StatusValueStart(a, "flat", last.id)
           IN  /\ DetectFormat(a) = "flat"
               /\ StatusLine(a, "flat", last.id) # 0
               /\ SubSeq(a, v, SkipNonWs(a, v) - 1)
                     = (IF HasSlashOrColon(last.status) THEN Quoted(last.status)
                        ELSE last.status)
               /\ ParsedStatus(a, "flat", last.id) = last.status

\* C5: every read and write of a call comes after a validation of the same
\* path, in the same call, that succeeded.
C5_EveryAccessValidated ==
    \A n \in DOMAIN last.io :
        last.io[n].kind \in {"read", "write"}
            => \E m \in 1..(n - 1) :
                  /\ last.io[m].kind = "validate"
                  /\ last.io[m].path = last.io[n].path
                  /\ last.io[m].ok

RECURSIVE Locate(_, _)
\* where a path really leads: symbolic links followed, components that do
\* not exist yet kept as written
Locate(cur, rest) ==
    IF rest = <<>> THEN cur
    ELSE IF Head(rest) = Dot THEN Locate(cur, Tail(rest))
    ELSE IF Head(rest) = DotDot THEN Locate(Parent(cur), Tail(rest))
    ELSE LET nxt == Append(cur, Head(rest))
         IN  Locate(IF nxt = LinkAt THEN LinkTarget ELSE nxt, Tail(rest))

RealLocation(str) == Locate(IF IsAbsolute(str) THEN <<>> ELSE Cwd, SplitPath(str))

\* C10: a candidate whose textual path is under the root and whose real
\* location is outside the root's real location is rejected.
C10_SymlinkEscapeRejected ==
    (/\ last.op = "isInsideWorkspace"
     /\ IsPrefix(SplitPath(PathResolve(last.root)), SplitPath(PathResolve(last.path)))
     /\ ~IsPrefix(RealLocation(last.root), RealLocation(last.path)))
        => ~last.ok

\* C4: isInsideWorkspace holds exactly when the normalized root is the
\* normalized candidate or a leading run of its components (the root `/`
\* followed by the separator is a prefix of no normalized path); /ws/a/b and
\* /ws are inside /ws, /ws/../etc/wf and /ws-o/a are not.
C4_Containment ==
    last.op = "isInsideWorkspace"
        => LET file == SplitPath(NormalizedForm(last.path))
               root == SplitPath(NormalizedForm(last.root))
               ws == JoinAbs(<<P_ws>>)
           IN  /\ last.ok <=> (IF root = <<>> THEN file = <<>> ELSE IsPrefix(root, file))
               /\ (last.root = ws /\ last.path = JoinAbs(<<P_ws, P_a, P_a>>)) => last.ok
               /\ (last.root = ws /\ last.path = ws) => last.ok
               /\ (last.root = ws /\ last.path = JoinAbs(<<P_ws, DotDot, P_etc, P_wf>>)) => ~last.ok
               /\ (last.root = ws /\ last.path = JoinAbs(<<P_ws_o, P_a>>)) => ~last.ok

\* the sibling directory /ws-o, whose name begins with the root's, was rejected
C4_Witness ==
    /\ last.op = "isInsideWorkspace"
    /\ last.root = JoinAbs(<<P_ws>>)
    /\ last.path = JoinAbs(<<P_ws_o, P_a>>)
    /\ ~last.ok

\* C11: isInsideWorkspace never raises: for every pair of inputs (the empty
\* string, relative paths and paths behind a symbolic link included) and every
\* internal step that fails, the call returns a boolean, and it returns false
\* whenever a step failed.
C11_NeverRaises ==
    last.op = "isInsideWorkspace" =>
        /\ ~last.raised
        /\ last.ok \in BOOLEAN
        /\ Throws(last.path, last.root, last.fault) => ~last.ok

\* a step failed on a pair that the comparison would have accepted
C11_Witness ==
    /\ last.op = "isInsideWorkspace"
    /\ Throws(last.path, last.root, last.fault)
    /\ isInsideWorkspace(last.path, last.root)
    /\ ~last.ok
    /\ ~last.raised

(***************************************************************************)
(* Vocabulary of the parse properties                                      *)
(***************************************************************************)
WorkflowParse == last.op = "parseWorkflowStatus"

SprintParse == last.op = "parseSprintStatus"

\* the parse error of the parser that ran last
ErrorAfter == IF WorkflowParse THEN lastWorkflowParseError ELSE lastSprintParseError

\* the call was refused by the path validation
RefusedOutside == \E n \in 1..Len(last.io) : last.io[n].kind = "validate" /\ ~last.io[n].ok

\* the call passed the validation and found no file
FoundMissing == ~RefusedOutside /\ ~ExistsSync(last.path)

\* the call read the file
ReadFile == \E n \in 1..Len(last.io) : last.io[n].kind = "read"

\* the text the call read
TextRead == last.before[NodeOf(last.path)]

\* the precedence of the formats: Nested, then Flat, then Legacy
Classified(s) ==
    IF YamlKind(s, K_workflows) = "mapping" THEN "new"
    ELSE IF YamlKind(s, K_workflow_status) = "mapping" THEN "flat"
    ELSE "old"

\* the items of the result with the id
ItemsOf(id) == {n \in 1..Len(last.result) : last.result[n].id = id}

\* C12: a parse of a path outside the workspace looks to the caller like a
\* parse of a missing file: no document and an empty parse-error state.
C12_OutsideAsMissing ==
    ((WorkflowParse \/ SprintParse) /\ RefusedOutside) =>
        /\ ~last.ok
        /\ last.result = <<>>
        /\ ErrorAfter = NoError

\* C13: a parse of a missing file returns no document and leaves the parse
\* error cleared; a parse of an existing file with a YAML syntax error returns
\* no document and leaves a message; a successful parse or a parse of a missing
\* file clears a message that an earlier parse left.
C13_MissingIsNoError ==
    (WorkflowParse \/ SprintParse) =>
        /\ FoundMissing => (~last.ok /\ ErrorAfter = NoError)
        /\ (ReadFile /\ YamlSyntaxError(TextRead)) => (~last.ok /\ ErrorAfter # NoError)
        /\ (last.errorBefore # NoError /\ (last.ok \/ FoundMissing)) => ErrorAfter = NoError

\* a parse of a missing file after a parse that left the message of a syntax
\* error
C13_Witness ==
    /\ WorkflowParse
    /\ FoundMissing
    /\ last.errorBefore = SyntaxFailure
    /\ lastWorkflowParseError = NoError

\* C14: parseWorkflowStatus and updateWorkflowItemStatus select the format of a
\* text alike, Nested before Flat before Legacy: the parser's choice is the
\* update's choice on the same text and is the precedence of the formats.
C14_SameClassification ==
    /\ (WorkflowParse /\ last.ok) =>
          (last.fmt = DetectFormat(TextRead) /\ last.fmt = Classified(TextRead))
    /\ (WorkflowCall /\ last.fmt # "none") =>
          (last.fmt = ParseFormat(TextRead) /\ last.fmt = Classified(TextRead))

\* a text with both keys as mappings, parsed as Nested
C14_Witness ==
    /\ WorkflowParse
    /\ last.ok
    /\ YamlKind(TextRead, K_workflows) = "mapping"
    /\ YamlKind(TextRead, K_workflow_status) = "mapping"
    /\ last.fmt = "new"
    /\ ItemsOf(I_prd) # {}
    /\ ItemsOf(I_ux) = {}

\* C15: a text that is neither Nested nor Flat and has no workflow_status
\* array (the key absent, the document empty, the key holding a scalar) parses
\* to a document with an empty item list and no parse error.
C15_LegacyDegrades ==
    (/\ WorkflowParse
     /\ ReadFile
     /\ ~YamlSyntaxError(TextRead)
     /\ Classified(TextRead) = "old"
     /\ YamlKind(TextRead, K_workflow_status) # "sequence") =>
        /\ last.ok
        /\ last.result = <<>>
        /\ lastWorkflowParseError = NoError

\* the status the rule of the nested format gives the entry at line e
NestedStatus(s, e) ==
    LET fields == FieldLines(s, K_workflows, e)
        status == FieldIn(s, fields, K_status)
        output == FieldIn(s, fields, K_output_file)
        given == IF status = 0 THEN <<>> ELSE ScalarAt(s, ValueStart(s, status, K_status))
    IN  IF given = S_complete /\ output # 0
        THEN ScalarAt(s, ValueStart(s, output, K_output_file))
        ELSE IF given = S_not_started \/ given = <<>> THEN S_required
        ELSE given

\* C16: every entry of a nested document yields an item: with the output_file
\* as status when the status is complete and an output_file is present, with
\* required when the status is not_started or absent, with the status of the
\* document otherwise.
C16_NestedStatusRule ==
    (/\ WorkflowParse
     /\ ReadFile
     /\ ~YamlSyntaxError(TextRead)
     /\ Classified(TextRead) = "new") =>
        /\ last.ok
        /\ \A e \in Entries(TextRead, K_workflows) :
              \E n \in ItemsOf(KeyOf(TextRead, e)) :
                 last.result[n].status = NestedStatus(TextRead, e)

\* C17: every item of a parsed document has an agent and a command; where the
\* document gives none they are those of the inference tables for the id
\* (agent pm for an id the tables do not have), in all three formats.
C17_InferenceFills ==
    (WorkflowParse /\ last.ok) =>
        \A n \in 1..Len(last.result) :
            LET item == last.result[n]
            IN  /\ item.agent # Undefined
                /\ item.command # Undefined
                /\ ~Includes(TextRead, K_agent \o <<":">>) =>
                      /\ item.agent = (IF item.id \in DOMAIN WORKFLOW_AGENT_MAP
                                       THEN WORKFLOW_AGENT_MAP[item.id] ELSE A_pm)
                      /\ item.command = item.id

\* a before b in the order of the items: by phase, then by id
InOrder(a, b) ==
    \/ a.phase.num < b.phase.num
    \/ a.phase.num = b.phase.num /\ localeCompare(a.id, b.id) <= 0

\* C18: the items of a parsed document are sorted ascending by phase and then
\* by id, in all three formats, whatever the order of the entries in the file.
C18_ItemsSorted ==
    (/\ WorkflowParse
     /\ last.ok
     /\ \A n \in 1..Len(last.result) : last.result[n].phase.type = "number") =>
        \A n \in 1..(Len(last.result) - 1) : InOrder(last.result[n], last.result[n + 1])

\* C19: every item of a parsed document has a phase among 0, 1, 2, 3 and the
\* sentinel prerequisite, in all three formats.
C19_PhaseRange ==
    (WorkflowParse /\ last.ok) =>
        \A n \in 1..Len(last.result) :
            \/ last.result[n].phase \in {Number(k) : k \in 0..3}
            \/ last.result[n].phase = String(S_prerequisite)

\* the keys of development_status in the text, in document order
KeysRead == LET e == Ascending(Entries(TextRead, K_development_status))
            IN  [n \in 1..Len(e) |-> KeyOf(TextRead, e[n])]

\* key has the form epic-N
IsEpicKey(key) ==
    /\ Len(key) > Len(K_epic_)
    /\ SubSeq(key, 1, Len(K_epic_)) = K_epic_
    /\ \A n \in (Len(K_epic_) + 1)..Len(key) : IsDigit(key[n])

\* the digits N of a key of the form N-..., <<>> for any other key
StoryPrefix(key) ==
    LET dashes == {n \in 1..Len(key) : key[n] = "-"}
        first == IF dashes = {} THEN 0 ELSE Min(dashes)
    IN  IF first > 1 /\ \A n \in 1..(first - 1) : IsDigit(key[n])
        THEN SubSeq(key, 1, first - 1) ELSE <<>>

\* the stories of the result, with the epic that holds them
StoriesRead ==
    {<<n, m>> \in (1..Len(last.result)) \X (1..MaxKeys + 2) :
        m <= Len(last.result[n].stories)}

\* C20: the result has one epic per key epic-N; a key N-... without
\* `retrospective` is a story of epic N exactly when the key epic-N exists,
\* with that epic's id as epicId and in document order; stories without epic
\* and keys with `retrospective` are nowhere in the result.
C20_EpicsAndStories ==
    (SprintParse /\ last.ok) =>
        LET keys == KeysRead
            Pos(key) == CHOOSE n \in 1..Len(keys) : keys[n] = key
        IN  /\ {last.result[n].id : n \in 1..Len(last.result)}
                  = {keys[n] : n \in {k \in 1..Len(keys) : IsEpicKey(keys[k])}}
            /\ \A n, m \in 1..Len(last.result) :
                  last.result[n].id = last.result[m].id => n = m
            /\ \A k \in 1..Len(keys) :
                  LET key == keys[k]
                      holders == {p \in StoriesRead : last.result[p[1]].stories[p[2]].id = key}
                      expected == /\ StoryPrefix(key) # <<>>
                                  /\ ~Includes(key, W_retrospective)
                                  /\ \E n \in 1..Len(keys) : keys[n] = K_epic_ \o StoryPrefix(key)
                  IN  \/ IsEpicKey(key) /\ holders = {}
                      \/ ~IsEpicKey(key) /\ ~expected /\ holders = {}
                      \/ /\ ~IsEpicKey(key) /\ expected
                         /\ Cardinality(holders) = 1
                         /\ \A p \in holders :
                               /\ last.result[p[1]].id = K_epic_ \o StoryPrefix(key)
                               /\ last.result[p[1]].stories[p[2]].epicId = last.result[p[1]].id
            /\ \A p \in StoriesRead :
                  /\ \E k \in 1..Len(keys) : keys[k] = last.result[p[1]].stories[p[2]].id
                  /\ p[2] > 1 =>
                        Pos(last.result[p[1]].stories[p[2] - 1].id)
                            < Pos(last.result[p[1]].stories[p[2]].id)

\* the keys epic-1, 1-1-login, 1-2-signup and a story without epic: one epic
\* with the two stories
C20_Witness ==
    /\ SprintParse
    /\ last.ok
    /\ KeysRead = <<I_epic_1, I_1_1_login, I_1_2_signup, I_9_9_none>>
    /\ Len(last.result) = 1
    /\ last.result[1].id = I_epic_1
    /\ Len(last.result[1].stories) = 2
    /\ last.result[1].stories[1].id = I_1_1_login
    /\ last.result[1].stories[2].id = I_1_2_signup

\* the number N of an epic id epic-N
NumberOfId(id) == DigitsValue(EpicNumOf(id))

\* C21: the epics of a parsed sprint document are in ascending order of their
\* numeric epic number, whatever the order of the keys in the file.
C21_EpicsAscending ==
    (SprintParse /\ last.ok) =>
        \A n \in 1..(Len(last.result) - 1) :
            NumberOfId(last.result[n].id) < NumberOfId(last.result[n + 1].id)

\* epic-10 before epic-2 in the file, epic-2 before epic-10 in the result
C21_Witness ==
    /\ SprintParse
    /\ last.ok
    /\ \E i, j \in 1..Len(KeysRead) :
          i < j /\ KeysRead[i] = I_epic_10 /\ KeysRead[j] = I_epic_2
    /\ \E n \in 1..(Len(last.result) - 1) :
          last.result[n].id = I_epic_2 /\ last.result[n + 1].id = I_epic_10

\* C22: a parse of a readable YAML document without a development_status
\* mapping (the empty document included) returns a document with no epics and
\* leaves no parse error.
C22_NoDevelopmentStatus ==
    (/\ SprintParse
     /\ ReadFile
     /\ ~YamlSyntaxError(TextRead)
     /\ YamlKind(TextRead, K_development_status) # "mapping") =>
        /\ last.ok
        /\ last.result = <<>>
        /\ lastSprintParseError = NoError

\* the reserved status tokens
ReservedTokens ==
    {S_required, S_skipped, <<"o","p","t","i","o","n","a","l">>,
     <<"r","e","c","o","m","m","e","n","d","e","d">>,
     <<"c","o","n","d","i","t","i","o","n","a","l">>}

\* the id and status of every item of a parsed workflow document
ItemPairs(doc) == {<<doc.result[n].id, doc.result[n].status>> : n \in 1..Len(doc.result)}

\* the id and status of every story of a parsed sprint document
StoryPairs(doc) ==
    {<<doc.result[p[1]].stories[p[2]].id, doc.result[p[1]].stories[p[2]].status>> :
        p \in {q \in (1..Len(doc.result)) \X (1..MaxItems + 2) :
                  q[2] <= Len(doc.result[q[1]].stories)}}

\* the pairs after the update are those before it, with the status of id
\* replaced by the new status
ReadsBack(before, after) ==
    after = {p \in before : p[1] # last.id} \cup {<<last.id, last.status>>}

\* C28: after a successful updateWorkflowItemStatus with a reserved token, or
\* a successful updateStoryStatus, a fresh parse of the file returns the item
\* or story of the id with the new status and every other item or story with
\* the status it had before the update.
C28_UpdateReadsBack ==
    /\ (WorkflowCall /\ last.ok /\ last.status \in ReservedTokens) =>
          /\ ParsedWorkflow(TextAfter).ok
          /\ ReadsBack(ItemPairs(ParsedWorkflow(TextBefore)),
                       ItemPairs(ParsedWorkflow(TextAfter)))
    /\ (StoryCall /\ last.ok) =>
          /\ ParsedSprint(TextAfter).ok
          /\ ReadsBack(StoryPairs(ParsedSprint(TextBefore)),
                       StoryPairs(ParsedSprint(TextAfter)))

\* C24: over any sequence of reloads each distinct parse-error message of a
\* view is shown once: no notification repeats an earlier one.
C24_ShownOnce ==
    \A i, j \in 1..Len(shown) : i < j => shown[i] # shown[j]

\* C23: under any interleaving of callers that parse and then read the parse
\* error, every caller reads the error of its own parse.
C23_OwnOutcome ==
    \A c \in DOMAIN callers :
        callers[c].pc = "done" => callers[c].seen = callers[c].own

\* no caller has called resetWasmCache
NoReset == \A c \in DOMAIN callers : callers[c].op # "resetWasmCache"

\* the callers of getWasmModule whose promise is settled and delivered
Served == {c \in DOMAIN callers : callers[c].op = "getWasmModule" /\ callers[c].pc = "done"}

\* C25: until resetWasmCache is called, loadWasmModule is executed exactly
\* once for any number of getWasmModule calls, those made before the load has
\* ended and those made later, and every caller that receives a module
\* receives the module of that one load.
C25_LoadedOnce ==
    NoReset =>
        /\ Len(loads) <= 1
        /\ (\E c \in DOMAIN callers : callers[c].op = "getWasmModule") => Len(loads) = 1
        /\ wasmModuleCache \in {None, Module(1)}
        /\ \A c \in Served : callers[c].value.kind = "module" => callers[c].value = Module(1)
        /\ (loads = <<"resolved">>) => \A c \in Served : callers[c].value = Module(1)

\* two callers that awaited the one load and a caller that called after it had
\* ended, all three with the module of load 1
C25_Witness ==
    /\ NoReset
    /\ Len(loads) = 1
    /\ \E c1, c2, c3 \in Served :
          /\ c1 # c2
          /\ callers[c1].on = 1 /\ callers[c2].on = 1 /\ callers[c3].on = 0
          /\ callers[c1].value = Module(1)
          /\ callers[c2].value = Module(1)
          /\ callers[c3].value = Module(1)

\* C26: a failed load is cached: until resetWasmCache is called every
\* getWasmModule call, concurrent or later, rejects with the error of that
\* load and no further load is executed; and in no reachable state are a
\* cached module and a cached error both present.
C26_ErrorCached ==
    /\ (NoReset /\ loads # <<>> /\ loads[1] = "rejected") =>
          /\ Len(loads) = 1
          /\ \A c \in Served : callers[c].value = LoadError(1)
    /\ ~(wasmModuleCache # None /\ wasmLoadError # None)

UpdateOps ==
    {"updateWorkflowItemStatus", "updateStoryStatus", "updateWorkflowItemStatusAsync",
     "updateStoryStatusAsync"}

\* the updates that have returned
Returned == {c \in DOMAIN callers : callers[c].op \in UpdateOps /\ callers[c].pc = "done"}

\* C27: a WASM-backed update returns false and leaves the file as it is
\* whenever the new content cannot be computed (module not loaded, load
\* failed, WASM update raising); what it writes is the content the WASM update
\* returned.
C27_NoWriteWithoutContent ==
    \A c \in Returned :
        LET caller == callers[c]
            r == WasmUpdate(caller.op, caller.content, caller.id, caller.status)
        IN  /\ (caller.cause \in {"not loaded", "load failed"} \/ r.raised) =>
                  (~caller.ok /\ caller.after = caller.before)
            /\ ~caller.ok => caller.after = caller.before
            /\ caller.ok => (~r.raised /\ caller.after = r.text)

\* a synchronous update without the module, an asynchronous update on which
\* the WASM update raised, and an update that wrote the content returned
C27_Witness ==
    \E c1, c2, c3 \in Returned :
        /\ callers[c1].cause = "not loaded" /\ callers[c1].op = "updateStoryStatus"
        /\ callers[c2].cause = "raised" /\ callers[c2].op = "updateWorkflowItemStatusAsync"
        /\ \A c \in {c1, c2} : ~callers[c].ok /\ callers[c].after = callers[c].before
                                 /\ callers[c].before # <<>>
        /\ callers[c3].ok /\ callers[c3].after # callers[c3].before

\* the events that start or extend a burst on a path: those that call debouncedNotify
BurstEvents(filePath, upTo) ==
    {i \in 1..upTo : events[i].path = filePath /\ events[i].eventType # "error"}

\* the greatest element of a non-empty set of numbers
Latest(S) == CHOOSE i \in S : \A j \in S : j <= i

\* C29: at any time at most one debounce timer is pending per file path, and
\* the callback of a path runs exactly once per burst of events: every run is
\* 300 ms after the last event the watcher had received for the path, no two
\* runs answer the same last event, and as long as the watcher is not disposed
\* the last event of a path that has not been answered has its timer pending
C29_OncePerBurst ==
    /\ \A t1 \in timers, t2 \in timers :
          (t1.kind = "debounce" /\ t2.kind = "debounce" /\ t1.path = t2.path) => t1 = t2
    /\ \A k \in 1..Len(notified) :
          LET n == notified[k]
              burst == BurstEvents(n.path, n.after)
          IN  /\ burst # {}
              /\ n.time = events[Latest(burst)].time + DebounceMs
              /\ \A k2 \in 1..Len(notified) :
                    (k2 # k /\ notified[k2].path = n.path)
                        => Latest(BurstEvents(n.path, notified[k2].after)) # Latest(burst)
    /\ ~disposed =>
          \A p \in WatchPaths :
             LET burst == BurstEvents(p, Len(events))
             IN  (burst # {} /\ \A k \in 1..Len(notified) :
                                   notified[k].path = p => notified[k].after < Latest(burst))
                    => \E t \in timers : /\ t.kind = "debounce" /\ t.path = p
                                         /\ t.due = events[Latest(burst)].time + DebounceMs

\* a burst of two events on the workflow file, 200 ms apart, was answered by
\* one callback 300 ms after the second event
C29_Witness ==
    /\ Len(events) = 2
    /\ \A i \in 1..2 : events[i].path = WorkflowPath /\ events[i].eventType # "error"
    /\ events[2].time = events[1].time + 2
    /\ Len(notified) = 1
    /\ notified[1].path = WorkflowPath
    /\ notified[1].time = events[2].time + DebounceMs
    /\ ~disposed

\* C30: once dispose() has run no onWorkflowChange or onSprintChange callback
\* runs and no native watcher is open, whatever timeouts were pending
C30_QuietAfterDispose ==
    /\ \A k \in 1..Len(notified) : ~notified[k].disposed
    /\ disposed => nativeWatchers = {}

====
